---- MODULE Spec2Model ----
(***************************************************************************)
(* Model of the DependencyContainer of the Playwright automation suite     *)
(* (fixtures/dependency-container.ts): the recorded page and request       *)
(* handles, the four lazily filled cache slots, the accessors, the         *)
(* create* factories, clearCache and the get*Dependencies bundles.         *)
(*                                                                         *)
(* Object identity (`new`) is modelled by a heap counter: every            *)
(* construction takes the next unused id, so two objects are the same      *)
(* reference exactly when their ids are equal.                             *)
(*                                                                         *)
(* Further specifications over the same definitions: SpecFixture (one test *)
(* execution under the fixtures), SpecConcurrent (two executions at the    *)
(* same time), SpecApi (calls in flight through one ApiHelper), SpecTodo   *)
(* (TodoPage.addMultipleTodos) and SpecIO (the calls made on the session   *)
(* handles).                                                               *)
(***************************************************************************)
EXTENDS Integers, Sequences, FiniteSets, TLC

-----------------------------------------------------------------------------
(* Bounds of the model *)

\* number of helper objects that may be constructed in one behaviour
MaxInst == 3
\* number of distinct page handles / request handles the runner can supply
MaxHandles == 2
\* number of calls a test body makes on its container
MaxBodyOps == 1
\* length of the array addMultipleTodos is called with
MaxTodos == 3
MaxItems == 3

-----------------------------------------------------------------------------
(* Values *)

\* JavaScript null for a handle (Page | null, APIRequestContext | null)
NoHandle == 0
Pages == 1..MaxHandles
Requests == 1..MaxHandles

\* JavaScript undefined for an optional string
Undefined == "<undefined>"
DefaultApiURL == "https://jsonplaceholder.typicode.com"
OptionURLs == {Undefined, "", "https://options.example"}
EnvBaseURLs == {Undefined, "", "https://env-base.example"}
EnvApiURLs == {Undefined, "", "https://env-api.example"}
CustomURLs == {Undefined, "", "https://custom.example"}

\* JavaScript truthiness of an optional string, and a || b
Truthy(s) == s # Undefined /\ s # ""
Or(a, b) == IF Truthy(a) THEN a ELSE b

PageNotInitialized == "Page not initialized. Call initializePage() first."
ApiNotInitialized == "API request context not initialized. Call initializeApi() first."

PageDeps == {"playwrightHomePage", "todoPage", "localStorageHelper"}
ApiDeps == {"apiHelper"}
Deps == PageDeps \cup ApiDeps

\* an empty cache slot (null), and "no value" of a void or throwing call
Null == [id |-> 0, class |-> "null", handle |-> NoHandle, baseURL |-> "", by |-> "none"]

-----------------------------------------------------------------------------
(* Helper classes: construction only composes an object over the handle.   *)
(* An object carries the id it took from the heap and, as a record of its  *)
(* origin, the kind of method whose `new` expression constructed it (by):  *)
(* "accessor" or "create".                                                 *)

NewPlaywrightHomePage(h, by, page) ==
    [id |-> h, class |-> "PlaywrightHomePage", handle |-> page, baseURL |-> "", by |-> by]

NewTodoPage(h, by, page) ==
    [id |-> h, class |-> "TodoPage", handle |-> page, baseURL |-> "", by |-> by]

NewLocalStorageHelper(h, by, page) ==
    [id |-> h, class |-> "LocalStorageHelper", handle |-> page, baseURL |-> "", by |-> by]

\* constructor(request, baseURL = ''): an undefined argument takes the default
NewApiHelper(h, by, request, url) ==
    [id |-> h, class |-> "ApiHelper", handle |-> request,
     baseURL |-> IF url = Undefined THEN "" ELSE url, by |-> by]

-----------------------------------------------------------------------------
(* DependencyContainer.  A method is an operator from the object (this)   *)
(* and the heap counter to its outcome: the object and heap afterwards,    *)
(* whether it threw, the error message, the returned value, and the        *)
(* accessor invocations it made (calls), in order.                         *)

Return(this, h, v, cs) ==
    [this |-> this, heap |-> h, threw |-> FALSE, error |-> "", value |-> v, calls |-> cs]

Throw(this, h, msg, cs) ==
    [this |-> this, heap |-> h, threw |-> TRUE, error |-> msg, value |-> Null, calls |-> cs]

AccCall(d, threw, v) == [dep |-> d, threw |-> threw, value |-> v]

\* constructor(options?)
DependencyContainer(optBaseURL, envBASE_URL, envAPI_BASE_URL) ==
    [page |-> NoHandle,
     request |-> NoHandle,
     baseURL |-> Or(optBaseURL, Or(envBASE_URL, Or(envAPI_BASE_URL, DefaultApiURL))),
     _playwrightHomePage |-> Null,
     _todoPage |-> Null,
     _localStorageHelper |-> Null,
     _apiHelper |-> Null]

\* variant: the todoPage slot is forgotten when the page changes
initializePage_keepsTodoPage(this, h, page) ==
    Return([this EXCEPT !.page = page,
                        !._playwrightHomePage = Null,
                        !._localStorageHelper = Null], h, Null, <<>>)

\* variant: the cached localStorageHelper survives a new page handle
initializePage_keepsLocalStorageHelper(this, h, page) ==
    Return([this EXCEPT !.page = page,
                        !._playwrightHomePage = Null,
                        !._todoPage = Null], h, Null, <<>>)

initializePage(this, h, page) ==
    Return([this EXCEPT !.page = page,
                        !._playwrightHomePage = Null,
                        !._todoPage = Null,
                        !._localStorageHelper = Null], h, Null, <<>>)

\* variant: every cached instance is dropped when the request changes
initializeApi_clearsAll(this, h, request) ==
    Return([this EXCEPT !.request = request,
                        !._playwrightHomePage = Null,
                        !._todoPage = Null,
                        !._localStorageHelper = Null,
                        !._apiHelper = Null], h, Null, <<>>)

\* variant: the request is recorded, the cached helper is kept
initializeApi_keepsCache(this, h, request) ==
    Return([this EXCEPT !.request = request], h, Null, <<>>)

initializeApi(this, h, request) ==
    Return([this EXCEPT !.request = request,
                        !._apiHelper = Null], h, Null, <<>>)

\* variant: the guard is missing
playwrightHomePage_noCheck(this, h) ==
    IF this._playwrightHomePage = Null
    THEN LET obj == NewPlaywrightHomePage(h, "accessor", this.page)
         IN Return([this EXCEPT !._playwrightHomePage = obj], h + 1, obj,
                   <<AccCall("playwrightHomePage", FALSE, obj)>>)
    ELSE Return(this, h, this._playwrightHomePage,
                <<AccCall("playwrightHomePage", FALSE, this._playwrightHomePage)>>)

\* variant: constructing the PlaywrightHomePage drops the cached apiHelper
playwrightHomePage_dropsApiHelper(this, h) ==
    IF this.page = NoHandle
    THEN Throw(this, h, PageNotInitialized, <<AccCall("playwrightHomePage", TRUE, Null)>>)
    ELSE IF this._playwrightHomePage = Null
         THEN LET obj == NewPlaywrightHomePage(h, "accessor", this.page)
              IN Return([this EXCEPT !._playwrightHomePage = obj, !._apiHelper = Null],
                        h + 1, obj, <<AccCall("playwrightHomePage", FALSE, obj)>>)
         ELSE Return(this, h, this._playwrightHomePage,
                     <<AccCall("playwrightHomePage", FALSE, this._playwrightHomePage)>>)

playwrightHomePage(this, h) ==
    IF this.page = NoHandle
    THEN Throw(this, h, PageNotInitialized, <<AccCall("playwrightHomePage", TRUE, Null)>>)
    ELSE IF this._playwrightHomePage = Null
         THEN LET obj == NewPlaywrightHomePage(h, "accessor", this.page)
              IN Return([this EXCEPT !._playwrightHomePage = obj], h + 1, obj,
                        <<AccCall("playwrightHomePage", FALSE, obj)>>)
         ELSE Return(this, h, this._playwrightHomePage,
                     <<AccCall("playwrightHomePage", FALSE, this._playwrightHomePage)>>)

\* variant: the guard tests the request handle instead of the page handle
todoPage_checksRequest(this, h) ==
    IF this.request = NoHandle
    THEN Throw(this, h, PageNotInitialized, <<AccCall("todoPage", TRUE, Null)>>)
    ELSE IF this._todoPage = Null
         THEN LET obj == NewTodoPage(h, "accessor", this.page)
              IN Return([this EXCEPT !._todoPage = obj], h + 1, obj,
                        <<AccCall("todoPage", FALSE, obj)>>)
         ELSE Return(this, h, this._todoPage,
                     <<AccCall("todoPage", FALSE, this._todoPage)>>)

todoPage(this, h) ==
    IF this.page = NoHandle
    THEN Throw(this, h, PageNotInitialized, <<AccCall("todoPage", TRUE, Null)>>)
    ELSE IF this._todoPage = Null
         THEN LET obj == NewTodoPage(h, "accessor", this.page)
              IN Return([this EXCEPT !._todoPage = obj], h + 1, obj,
                        <<AccCall("todoPage", FALSE, obj)>>)
         ELSE Return(this, h, this._todoPage,
                     <<AccCall("todoPage", FALSE, this._todoPage)>>)

\* variant: the cached instance is never reused
localStorageHelper_neverCaches(this, h) ==
    IF this.page = NoHandle
    THEN Throw(this, h, PageNotInitialized, <<AccCall("localStorageHelper", TRUE, Null)>>)
    ELSE LET obj == NewLocalStorageHelper(h, "accessor", this.page)
         IN Return([this EXCEPT !._localStorageHelper = obj], h + 1, obj,
                   <<AccCall("localStorageHelper", FALSE, obj)>>)

localStorageHelper(this, h) ==
    IF this.page = NoHandle
    THEN Throw(this, h, PageNotInitialized, <<AccCall("localStorageHelper", TRUE, Null)>>)
    ELSE IF this._localStorageHelper = Null
         THEN LET obj == NewLocalStorageHelper(h, "accessor", this.page)
              IN Return([this EXCEPT !._localStorageHelper = obj], h + 1, obj,
                        <<AccCall("localStorageHelper", FALSE, obj)>>)
         ELSE Return(this, h, this._localStorageHelper,
                     <<AccCall("localStorageHelper", FALSE, this._localStorageHelper)>>)

\* variant: the guard tests the page handle instead of the request handle
apiHelper_checksPage(this, h) ==
    IF this.page = NoHandle
    THEN Throw(this, h, ApiNotInitialized, <<AccCall("apiHelper", TRUE, Null)>>)
    ELSE IF this._apiHelper = Null
         THEN LET obj == NewApiHelper(h, "accessor", this.request, this.baseURL)
              IN Return([this EXCEPT !._apiHelper = obj], h + 1, obj,
                        <<AccCall("apiHelper", FALSE, obj)>>)
         ELSE Return(this, h, this._apiHelper,
                     <<AccCall("apiHelper", FALSE, this._apiHelper)>>)

\* variant: the cached instance is never reused
apiHelper_neverCaches(this, h) ==
    IF this.request = NoHandle
    THEN Throw(this, h, ApiNotInitialized, <<AccCall("apiHelper", TRUE, Null)>>)
    ELSE LET obj == NewApiHelper(h, "accessor", this.request, this.baseURL)
         IN Return([this EXCEPT !._apiHelper = obj], h + 1, obj,
                   <<AccCall("apiHelper", FALSE, obj)>>)

apiHelper(this, h) ==
    IF this.request = NoHandle
    THEN Throw(this, h, ApiNotInitialized, <<AccCall("apiHelper", TRUE, Null)>>)
    ELSE IF this._apiHelper = Null
         THEN LET obj == NewApiHelper(h, "accessor", this.request, this.baseURL)
              IN Return([this EXCEPT !._apiHelper = obj], h + 1, obj,
                        <<AccCall("apiHelper", FALSE, obj)>>)
         ELSE Return(this, h, this._apiHelper,
                     <<AccCall("apiHelper", FALSE, this._apiHelper)>>)

createPlaywrightHomePage(this, h) ==
    IF this.page = NoHandle
    THEN Throw(this, h, PageNotInitialized, <<>>)
    ELSE Return(this, h + 1, NewPlaywrightHomePage(h, "create", this.page), <<>>)

\* variant: the new instance is also stored in the cache slot
createTodoPage_cachesInstance(this, h) ==
    IF this.page = NoHandle
    THEN Throw(this, h, PageNotInitialized, <<>>)
    ELSE LET obj == NewTodoPage(h, "create", this.page)
         IN Return([this EXCEPT !._todoPage = obj], h + 1, obj, <<>>)

\* variant: a failed call drops the cached apiHelper
createTodoPage_resetsOnError(this, h) ==
    IF this.page = NoHandle
    THEN Throw([this EXCEPT !._apiHelper = Null], h, PageNotInitialized, <<>>)
    ELSE Return(this, h + 1, NewTodoPage(h, "create", this.page), <<>>)

createTodoPage(this, h) ==
    IF this.page = NoHandle
    THEN Throw(this, h, PageNotInitialized, <<>>)
    ELSE Return(this, h + 1, NewTodoPage(h, "create", this.page), <<>>)

\* variant: the guard is missing
createLocalStorageHelper_noCheck(this, h) ==
    Return(this, h + 1, NewLocalStorageHelper(h, "create", this.page), <<>>)

createLocalStorageHelper(this, h) ==
    IF this.page = NoHandle
    THEN Throw(this, h, PageNotInitialized, <<>>)
    ELSE Return(this, h + 1, NewLocalStorageHelper(h, "create", this.page), <<>>)

\* variant: the new ApiHelper replaces the cached one
createApiHelper_cachesInstance(this, h, customBaseURL) ==
    IF this.request = NoHandle
    THEN Throw(this, h, ApiNotInitialized, <<>>)
    ELSE LET obj == NewApiHelper(h, "create", this.request, Or(customBaseURL, this.baseURL))
         IN Return([this EXCEPT !._apiHelper = obj], h + 1, obj, <<>>)

createApiHelper(this, h, customBaseURL) ==
    IF this.request = NoHandle
    THEN Throw(this, h, ApiNotInitialized, <<>>)
    ELSE Return(this, h + 1,
                NewApiHelper(h, "create", this.request, Or(customBaseURL, this.baseURL)), <<>>)

\* variant: the handles are dropped with the cached instances
clearCache_dropsHandles(this, h) ==
    Return([this EXCEPT !.page = NoHandle,
                        !.request = NoHandle,
                        !._playwrightHomePage = Null,
                        !._todoPage = Null,
                        !._localStorageHelper = Null,
                        !._apiHelper = Null], h, Null, <<>>)

\* variant: the todoPage slot is forgotten
clearCache_keepsTodoPage(this, h) ==
    Return([this EXCEPT !._playwrightHomePage = Null,
                        !._localStorageHelper = Null,
                        !._apiHelper = Null], h, Null, <<>>)

\* variant: the apiHelper slot is forgotten
clearCache_keepsApiHelper(this, h) ==
    Return([this EXCEPT !._playwrightHomePage = Null,
                        !._todoPage = Null,
                        !._localStorageHelper = Null], h, Null, <<>>)

clearCache(this, h) ==
    Return([this EXCEPT !._playwrightHomePage = Null,
                        !._todoPage = Null,
                        !._localStorageHelper = Null,
                        !._apiHelper = Null], h, Null, <<>>)

getPageDependencies(this, h) ==
    LET r1 == playwrightHomePage(this, h)
        r2 == todoPage(r1.this, r1.heap)
        r3 == localStorageHelper(r2.this, r2.heap)
    IN IF r1.threw THEN r1
       ELSE IF r2.threw THEN [r2 EXCEPT !.calls = r1.calls \o r2.calls]
       ELSE IF r3.threw THEN [r3 EXCEPT !.calls = r1.calls \o r2.calls \o r3.calls]
       ELSE Return(r3.this, r3.heap,
                   [playwrightHomePage |-> r1.value,
                    todoPage |-> r2.value,
                    localStorageHelper |-> r3.value],
                   r1.calls \o r2.calls \o r3.calls)

\* variant: the bundle holds a new ApiHelper instead of the cached one
getApiDependencies_uncached(this, h) ==
    LET r1 == createApiHelper(this, h, Undefined)
    IN IF r1.threw THEN r1
       ELSE Return(r1.this, r1.heap, [apiHelper |-> r1.value], r1.calls)

getApiDependencies(this, h) ==
    LET r1 == apiHelper(this, h)
    IN IF r1.threw THEN r1
       ELSE Return(r1.this, r1.heap, [apiHelper |-> r1.value], r1.calls)

getAllDependencies(this, h) ==
    LET r1 == getPageDependencies(this, h)
        r2 == getApiDependencies(r1.this, r1.heap)
    IN IF r1.threw THEN r1
       ELSE IF r2.threw THEN [r2 EXCEPT !.calls = r1.calls \o r2.calls]
       ELSE Return(r2.this, r2.heap,
                   [playwrightHomePage |-> r1.value.playwrightHomePage,
                    todoPage |-> r1.value.todoPage,
                    localStorageHelper |-> r1.value.localStorageHelper,
                    apiHelper |-> r2.value.apiHelper],
                   r1.calls \o r2.calls)

\* createDependencyContainer(options?)
createDependencyContainer(optBaseURL, envBASE_URL, envAPI_BASE_URL) ==
    DependencyContainer(optBaseURL, envBASE_URL, envAPI_BASE_URL)

-----------------------------------------------------------------------------
(* State *)

VARIABLES
    container,   \* the DependencyContainer object of one test execution
    heap,        \* id the next constructed object takes
    ret,         \* the last call on the container and its outcome
    \* history of the calls made so far (observations, not program state)
    called,      \* which of initializePage / initializeApi were called so far
    pending,     \* per dependency: the last initialize*/clearCache call, while the
                 \* dependency's accessor has not run since ("none" once it ran)
    sinceReset,  \* per dependency: the objects its accessor returned since the
                 \* last initialize*/clearCache call
    note,        \* about the last call, when it was an accessor or a createX
    scen,        \* per scenario: how many of its calls the calls so far have
                 \* followed, from the first call on (-1: they left it)
    scenRes,     \* per scenario: the outcomes of the calls that followed it
    \* the test executions running under the fixtures of fixtures/test-fixtures
    fx,          \* environment, container objects, and each execution's position
    \* an ApiHelper object and the calls in flight through it
    api,
    \* the todo application's page and a call of TodoPage.addMultipleTodos on it
    todo,
    \* a container, and the calls the last operation made on the session handles
    io,
    \* a container and the outcome of the last call on it, without history
    dc,
    \* a call of ApiValidators.validateArrayResponse
    val,
    \* calls of BasePage.safeClick / safeFill on an element
    act

vars ==
    <<container, heap, ret, called, pending, sinceReset, note, scen, scenRes, fx, api,
      todo, io, dc, val, act>>

InitOps == {"initializePage", "initializeApi"}
ResetOps == InitOps \cup {"clearCache"}

Accessor(d) == d
Creator(d) ==
    CASE d = "playwrightHomePage" -> "createPlaywrightHomePage"
      [] d = "todoPage" -> "createTodoPage"
      [] d = "localStorageHelper" -> "createLocalStorageHelper"
      [] d = "apiHelper" -> "createApiHelper"

\* the cache slot of dependency d, and the handle d depends on
Slot(this, d) ==
    CASE d = "playwrightHomePage" -> this._playwrightHomePage
      [] d = "todoPage" -> this._todoPage
      [] d = "localStorageHelper" -> this._localStorageHelper
      [] d = "apiHelper" -> this._apiHelper

HandleOf(this, d) == IF d \in PageDeps THEN this.page ELSE this.request

\* Call sequences on a new container whose outcomes are followed call by call.
\* section8 is the scenario of section 8 of the specification.
Scenarios ==
    [section8 |-> <<"apiHelper", "initializeApi", "apiHelper", "apiHelper",
                    "clearCache", "apiHelper">>,
     reinitPage |-> <<"initializeApi", "apiHelper", "initializePage", "todoPage",
                      "initializePage", "todoPage", "apiHelper">>,
     reinitApi |-> <<"initializePage", "localStorageHelper", "initializeApi", "apiHelper",
                     "initializeApi", "apiHelper", "localStorageHelper">>,
     clear |-> <<"initializePage", "playwrightHomePage", "clearCache",
                 "playwrightHomePage">>,
     createTwice |-> <<"initializePage", "todoPage", "createTodoPage", "createTodoPage",
                       "todoPage">>,
     ready |-> <<"initializePage", "initializeApi", "apiHelper", "clearCache",
                 "initializePage", "todoPage", "createApiHelper">>,
     viaAll |-> <<"initializePage", "getAllDependencies", "initializeApi",
                  "initializePage">>]

ScenarioNames == DOMAIN Scenarios

\* the objects accessor d returned during one call of the container, and
\* the dependencies whose accessor the call invoked
AccReturned(res, d) ==
    {res.calls[i].value : i \in {j \in 1..Len(res.calls) :
                                     res.calls[j].dep = d /\ ~res.calls[j].threw}}

AccInvoked(res) == {res.calls[i].dep : i \in 1..Len(res.calls)}

\* the dependency an accessor or createX call is about
DepOf(op) == IF op \in Deps THEN op ELSE CHOOSE d \in Deps : Creator(d) = op

\* after: pending of the dependency before the call; again: its accessor had
\* already returned since the last initialize*/clearCache; fresh: the call
\* returned an object it constructed itself (an object that did not exist
\* before the call, hence different from every object returned before)
NoNote == [after |-> "none", again |-> FALSE, fresh |-> FALSE]

\* One call op(arg) on the container with outcome res: the program state
\* takes the outcome, and the history records what the caller saw.
Call(op, arg, res) ==
    /\ res.heap <= MaxInst + 1
    /\ container' = res.this
    /\ heap' = res.heap
    /\ ret' = [op |-> op, arg |-> arg, threw |-> res.threw, error |-> res.error,
               value |-> res.value]
    /\ called' = called \cup ({op} \cap InitOps)
    /\ pending' = [d \in Deps |->
                     IF op \in ResetOps THEN op
                     ELSE IF d \in AccInvoked(res) THEN "none" ELSE pending[d]]
    /\ sinceReset' = [d \in Deps |->
                        IF op \in ResetOps THEN {}
                        ELSE sinceReset[d] \cup AccReturned(res, d)]
    /\ note' = IF op \in Deps \cup {Creator(d) : d \in Deps}
               THEN [after |-> pending[DepOf(op)],
                     again |-> sinceReset[DepOf(op)] # {},
                     fresh |-> ~res.threw /\ res.value.id = heap]
               ELSE NoNote
    /\ LET follows(n) == /\ scen[n] >= 0
                         /\ scen[n] < Len(Scenarios[n])
                         /\ op = Scenarios[n][scen[n] + 1]
       IN /\ scen' = [n \in ScenarioNames |-> IF follows(n) THEN scen[n] + 1 ELSE -1]
          /\ scenRes' = [n \in ScenarioNames |->
                           IF follows(n)
                           THEN Append(scenRes[n], [arg |-> arg, threw |-> res.threw,
                                                    error |-> res.error, value |-> res.value])
                           ELSE <<>>]
    /\ UNCHANGED <<fx, api, todo, io, dc, val, act>>

-----------------------------------------------------------------------------
(* Operations on the container *)

CallInitializePage == \E p \in Pages :
    Call("initializePage", p, initializePage(container, heap, p))

CallInitializeApi == \E r \in Requests :
    Call("initializeApi", r, initializeApi(container, heap, r))

GetPlaywrightHomePage ==
    Call("playwrightHomePage", 0, playwrightHomePage(container, heap))

GetTodoPage ==
    Call("todoPage", 0, todoPage(container, heap))

GetLocalStorageHelper ==
    Call("localStorageHelper", 0, localStorageHelper(container, heap))

GetApiHelper ==
    Call("apiHelper", 0, apiHelper(container, heap))

CallCreatePlaywrightHomePage ==
    Call("createPlaywrightHomePage", 0, createPlaywrightHomePage(container, heap))

CallCreateTodoPage ==
    Call("createTodoPage", 0, createTodoPage(container, heap))

CallCreateLocalStorageHelper ==
    Call("createLocalStorageHelper", 0, createLocalStorageHelper(container, heap))

CallCreateApiHelper == \E u \in CustomURLs :
    Call("createApiHelper", u, createApiHelper(container, heap, u))

CallClearCache ==
    Call("clearCache", 0, clearCache(container, heap))

CallGetPageDependencies ==
    Call("getPageDependencies", 0, getPageDependencies(container, heap))

CallGetApiDependencies ==
    Call("getApiDependencies", 0, getApiDependencies(container, heap))

CallGetAllDependencies ==
    Call("getAllDependencies", 0, getAllDependencies(container, heap))

-----------------------------------------------------------------------------
(* Test executions under the fixtures (fixtures/test-fixtures, container version) *)

\* two test executions, run by the test runner at the same time
Execs == {1, 2}

\* the page and the request context the runner builds for execution e: its own
PageOf(e) == e
RequestOf(e) == e

NoCall == [op |-> "none", arg |-> Undefined, threw |-> FALSE, error |-> "", value |-> Null]

\* an execution before any of its fixtures is set up
NewExec ==
    [pc |-> "start", ref |-> 0, vals |-> [d \in Deps |-> Null], n |-> 0,
     last |-> NoCall, result |-> "none",
     direct |-> [d \in Deps |-> Null], reset |-> FALSE]

\* store holds the container objects made so far, ref being the place of an
\* execution's container in it, kept with the id its next object takes. Each
\* container numbers the objects it builds from 1: objects of one container are
\* the same reference exactly when their ids are equal, objects built on
\* different handles always differ.
NoExecutions ==
    [env |-> [BASE_URL |-> Undefined, API_BASE_URL |-> Undefined],
     store |-> <<>>, actor |-> 0, ex |-> [e \in Execs |-> NewExec]]

\* ENV.API_BASE_URL of the fixtures module
ConfiguredApiURL(env) == Or(env.API_BASE_URL, DefaultApiURL)

\* const container = createDependencyContainer();
\* container.initializePage(page); container.initializeApi(request); await use(container)
dependencyContainerSetup_noInitializeApi(f, e) ==
    LET c == createDependencyContainer(Undefined, f.env.BASE_URL, f.env.API_BASE_URL)
        r1 == initializePage(c, 1, PageOf(e))
    IN [f EXCEPT !.store = Append(f.store, [this |-> r1.this, heap |-> r1.heap]),
                 !.actor = e,
                 !.ex[e].ref = Len(f.store) + 1,
                 !.ex[e].pc = "fixtures"]

dependencyContainerSetup_sharedContainer(f, e) ==
    LET o == IF f.store = <<>>
             THEN [this |-> createDependencyContainer(Undefined, f.env.BASE_URL,
                                                      f.env.API_BASE_URL),
                   heap |-> 1]
             ELSE f.store[1]
        r1 == initializePage(o.this, o.heap, PageOf(e))
        r2 == initializeApi(r1.this, r1.heap, RequestOf(e))
    IN [f EXCEPT !.store = <<[this |-> r2.this, heap |-> r2.heap]>>,
                 !.actor = e,
                 !.ex[e].ref = 1,
                 !.ex[e].pc = "fixtures"]

dependencyContainerSetup(f, e) ==
    LET c == createDependencyContainer(Undefined, f.env.BASE_URL, f.env.API_BASE_URL)
        r1 == initializePage(c, 1, PageOf(e))
        r2 == initializeApi(r1.this, r1.heap, RequestOf(e))
    IN [f EXCEPT !.store = Append(f.store, [this |-> r2.this, heap |-> r2.heap]),
                 !.actor = e,
                 !.ex[e].ref = Len(f.store) + 1,
                 !.ex[e].pc = "fixtures"]

\* container.clearCache(), the code after `await use(container)`
dependencyContainerTeardown(f, e) ==
    LET ref == f.ex[e].ref
        r == clearCache(f.store[ref].this, f.store[ref].heap)
    IN [f EXCEPT !.store[ref] = [this |-> r.this, heap |-> r.heap],
                 !.actor = e,
                 !.ex[e].last = NoCall,
                 !.ex[e].pc = "done"]

\* dependencyContainer.<d>
Access(d, this, h) ==
    CASE d = "playwrightHomePage" -> playwrightHomePage(this, h)
      [] d = "todoPage" -> todoPage(this, h)
      [] d = "localStorageHelper" -> localStorageHelper(this, h)
      [] d = "apiHelper" -> apiHelper(this, h)

\* variant: the fixture hands out a new instance, not the container's cached one
helperFixtureSetup_createsInstance(f, e, d) ==
    LET ref == f.ex[e].ref
        this == f.store[ref].this
        h == f.store[ref].heap
        r == CASE d = "playwrightHomePage" -> createPlaywrightHomePage(this, h)
               [] d = "todoPage" -> createTodoPage(this, h)
               [] d = "localStorageHelper" -> createLocalStorageHelper(this, h)
               [] d = "apiHelper" -> createApiHelper(this, h, Undefined)
    IN [f EXCEPT !.store[ref] = [this |-> r.this, heap |-> r.heap],
                 !.actor = e,
                 !.ex[e].vals[d] = r.value,
                 !.ex[e].last = [op |-> d, arg |-> Undefined, threw |-> r.threw,
                                 error |-> r.error, value |-> r.value],
                 !.ex[e].pc = IF r.threw THEN "teardown" ELSE "fixtures",
                 !.ex[e].result = IF r.threw THEN "fixtureError" ELSE "none"]

\* <d>: async ({ dependencyContainer }, use) => { await use(dependencyContainer.<d>) }
\* a fixture that throws fails the test: its body does not run
helperFixtureSetup(f, e, d) ==
    LET ref == f.ex[e].ref
        r == Access(d, f.store[ref].this, f.store[ref].heap)
    IN [f EXCEPT !.store[ref] = [this |-> r.this, heap |-> r.heap],
                 !.actor = e,
                 !.ex[e].vals[d] = r.value,
                 !.ex[e].last = [op |-> d, arg |-> Undefined, threw |-> r.threw,
                                 error |-> r.error, value |-> r.value],
                 !.ex[e].pc = IF r.threw THEN "teardown" ELSE "fixtures",
                 !.ex[e].result = IF r.threw THEN "fixtureError" ELSE "none"]

\* the fixtures that construct the helpers themselves, for the same test: direct
\* holds the values they hand out, numbered in the order they are set up
\* <d>: async ({ page }, use) => { const x = new X(page); await use(x); }
\* apiHelper: new ApiHelper(request, process.env.API_BASE_URL || '')
directFixtureSetup(f, e, d) ==
    LET h == Cardinality({x \in Deps : f.ex[e].direct[x] # Null}) + 1
        obj == CASE d = "playwrightHomePage" ->
                       NewPlaywrightHomePage(h, "fixture", PageOf(e))
                 [] d = "todoPage" -> NewTodoPage(h, "fixture", PageOf(e))
                 [] d = "localStorageHelper" ->
                       NewLocalStorageHelper(h, "fixture", PageOf(e))
                 [] d = "apiHelper" ->
                       NewApiHelper(h, "fixture", RequestOf(e), Or(f.env.API_BASE_URL, ""))
    IN [f EXCEPT !.ex[e].direct[d] = obj]

\* the calls a test body makes on its dependencyContainer (the get*Dependencies
\* bundles are calls of the accessors)
BodyOps ==
    {"initializePage", "initializeApi", "clearCache",
     "playwrightHomePage", "todoPage", "localStorageHelper", "apiHelper",
     "createPlaywrightHomePage", "createTodoPage", "createLocalStorageHelper",
     "createApiHelper"}

BodyArgs(op) == IF op = "createApiHelper" THEN CustomURLs ELSE {Undefined}

Invoke(op, arg, e, this, h) ==
    CASE op = "initializePage" -> initializePage(this, h, PageOf(e))
      [] op = "initializeApi" -> initializeApi(this, h, RequestOf(e))
      [] op = "clearCache" -> clearCache(this, h)
      [] op = "createPlaywrightHomePage" -> createPlaywrightHomePage(this, h)
      [] op = "createTodoPage" -> createTodoPage(this, h)
      [] op = "createLocalStorageHelper" -> createLocalStorageHelper(this, h)
      [] op = "createApiHelper" -> createApiHelper(this, h, arg)
      [] OTHER -> Access(op, this, h)

\* one call of the test body on its container; an error it raises fails the test
testBodyCall(f, e, op, arg) ==
    LET ref == f.ex[e].ref
        r == Invoke(op, arg, e, f.store[ref].this, f.store[ref].heap)
    IN [f EXCEPT !.store[ref] = [this |-> r.this, heap |-> r.heap],
                 !.actor = e,
                 !.ex[e].last = [op |-> op, arg |-> arg, threw |-> r.threw,
                                 error |-> r.error, value |-> r.value],
                 !.ex[e].pc = IF r.threw THEN "teardown" ELSE "body",
                 !.ex[e].result = IF r.threw THEN "failed" ELSE "none"]

-----------------------------------------------------------------------------
(* ApiHelper (helpers/api.helper): the calls made through one helper object *)

\* private readonly defaultTimeout
defaultTimeout == 15000

\* base URLs a helper is constructed with: '' (the default of the constructor)
\* and an absolute URL; endpoints and query parameters a call is made with
ApiBaseURLs == {"", DefaultApiURL}
Endpoints == {"/posts", "/users"}
NoParams == ""
ParamSets == {NoParams, "userId=1"}
AbsoluteURLs == {DefaultApiURL \o e : e \in Endpoints}

\* status codes the server answers with
Statuses == {200, 404, 500}

\* how a request ends: answered, or failed (no connection, timeout)
Outcomes ==
    {[ok |-> TRUE, status |-> st] : st \in Statuses} \cup {[ok |-> FALSE, status |-> 0]}

\* two calls, in flight at the same time (Promise.all)
ApiCalls == {1, 2}

\* new ApiHelper(request, baseURL = '')
ApiHelper(request, baseURL) ==
    [request |-> request,
     baseURL |-> IF baseURL = Undefined THEN "" ELSE baseURL,
     defaultTimeout |-> defaultTimeout]

NoResponse == [url |-> "", method |-> "", status |-> 0, body |-> ""]
NoResult == [response |-> NoResponse, data |-> [as |-> "", body |-> ""], status |-> 0]

\* a call not made yet. cause tells what made a call throw: "url" (the URL could
\* not be built), "request" (the request failed), "body" (the body could not be read)
IdleCall ==
    [pc |-> "idle", method |-> "", url |-> "", timeout |-> 0, response |-> NoResponse,
     threw |-> FALSE, cause |-> "none", error |-> "", result |-> NoResult]

\* latest is the response the request context delivered last
NoApiCalls ==
    [helper |-> ApiHelper(NoHandle, Undefined), made |-> ApiHelper(NoHandle, Undefined),
     call |-> [c \in ApiCalls |-> IdleCall], latest |-> NoResponse]

\* what the server sends back for a request
BodyOf(method, url) == "body of " \o method \o " " \o url

\* `${METHOD} request to ${url} failed: ${error}`
RequestFailed(method, url, error) ==
    method \o " request to " \o url \o " failed: " \o error

InvalidURL == "TypeError: Invalid URL"

\* buildUrl(endpoint, params): new URL(url) throws on a URL that is not absolute
buildUrl(this, endpoint, params) ==
    LET url == this.baseURL \o endpoint
    IN IF params = NoParams THEN [threw |-> FALSE, url |-> url]
       ELSE IF url \in AbsoluteURLs THEN [threw |-> FALSE, url |-> url \o "?" \o params]
       ELSE [threw |-> TRUE, url |-> url]

\* this.request.<method>(url, { ..., timeout: options?.timeout || this.defaultTimeout })
Issue(a, c, method, url) ==
    [a EXCEPT !.call[c] = [IdleCall EXCEPT !.pc = "requesting", !.method = method,
                                           !.url = url,
                                           !.timeout = a.helper.defaultTimeout]]

\* get(endpoint, options), up to the first await
get(a, c, endpoint, params) ==
    LET b == buildUrl(a.helper, endpoint, params)
    IN IF b.threw
       THEN [a EXCEPT !.call[c] = [IdleCall EXCEPT !.pc = "done", !.method = "GET",
                                                   !.url = b.url, !.threw = TRUE,
                                                   !.cause = "url", !.error = InvalidURL]]
       ELSE Issue(a, c, "GET", b.url)

\* post / put / patch / delete (endpoint, ...), up to the first await
post(a, c, endpoint) == Issue(a, c, "POST", a.helper.baseURL \o endpoint)
put(a, c, endpoint) == Issue(a, c, "PUT", a.helper.baseURL \o endpoint)
patch(a, c, endpoint) == Issue(a, c, "PATCH", a.helper.baseURL \o endpoint)
delete(a, c, endpoint) == Issue(a, c, "DELETE", a.helper.baseURL \o endpoint)

\* `await this.request.<method>(...)` settles: with the response to this request,
\* whatever its status, or with an error, which the catch block wraps
requestSettles(a, c, outcome) ==
    LET x == a.call[c]
        response == [url |-> x.url, method |-> x.method, status |-> outcome.status,
                     body |-> BodyOf(x.method, x.url)]
    IN IF ~outcome.ok
       THEN [a EXCEPT !.call[c].pc = "done", !.call[c].threw = TRUE,
                      !.call[c].cause = "request",
                      !.call[c].error = RequestFailed(x.method, x.url, "Error: request failed")]
       ELSE [a EXCEPT !.call[c].pc = "parsing", !.call[c].response = response,
                      !.latest = response]

\* data: await this.parseResponse(response), status: response.status(); the body
\* is read as JSON or as text, and a body that cannot be read is an error in the
\* try block
parseResponse_readsLatest(a, c, how) ==
    LET x == a.call[c]
        response == a.latest
    IN IF how = "failed"
       THEN [a EXCEPT !.call[c].pc = "done", !.call[c].threw = TRUE,
                      !.call[c].cause = "body",
                      !.call[c].error = RequestFailed(x.method, x.url, "Error: body not read")]
       ELSE [a EXCEPT !.call[c].pc = "done",
                      !.call[c].result = [response |-> response,
                                          data |-> [as |-> how, body |-> response.body],
                                          status |-> response.status]]

parseResponse(a, c, how) ==
    LET x == a.call[c]
        response == x.response
    IN IF how = "failed"
       THEN [a EXCEPT !.call[c].pc = "done", !.call[c].threw = TRUE,
                      !.call[c].cause = "body",
                      !.call[c].error = RequestFailed(x.method, x.url, "Error: body not read")]
       ELSE [a EXCEPT !.call[c].pc = "done",
                      !.call[c].result = [response |-> response,
                                          data |-> [as |-> how, body |-> response.body],
                                          status |-> response.status]]

-----------------------------------------------------------------------------
(* TodoPage.addTodo / addMultipleTodos (pages/todo.page) on the todo application *)

\* TEST_DATA.todos
Titles == {"buy some cheese", "feed the cat"}

SeqsUpTo(S, n) == UNION {[1..m -> S] : m \in 0..n}

\* list: the todo items the application shows; input: the text in its new-todo
\* field; todos: the argument of addMultipleTodos; pc[k]: where the addTodo of
\* todos[k] is ("new": not called; else the call it awaits; "done"; "failed");
\* before: list when addMultipleTodos was called
\* completed[k]: whether the checkbox of item k of list is checked; call: the
\* last toggleTodo or uncheckTodo call, with the checkboxes as it found them
NoTodoCall == [op |-> "none", index |-> 0, threw |-> FALSE, was |-> <<>>]

NoTodos == [todos |-> <<>>, before |-> <<>>, list |-> <<>>, input |-> "", pc |-> <<>>,
            completed |-> <<>>, call |-> NoTodoCall]

\* for (const todo of todos) { await this.addTodo(todo); }
\* the addTodo of todos[k] is called once the one before it has returned
addMultipleTodos_forEachNoAwait(t, k) ==
    /\ t.pc[k] = "new"
    /\ IF k = 1 THEN TRUE ELSE t.pc[k - 1] # "new"

addMultipleTodos(t, k) ==
    /\ t.pc[k] = "new"
    /\ IF k = 1 THEN TRUE ELSE t.pc[k - 1] = "done"

\* addTodo(text): safeFill(newTodoInput, text) is waitForElement, clear, fill;
\* then press('Enter'), then waitForTimeout(100)
addTodo(t, k) == [t EXCEPT !.pc[k] = "waitFor"]

\* await locator.waitFor({ state: 'visible', timeout }) returns, or throws
waitForElement(t, k, visible) ==
    [t EXCEPT !.pc[k] = IF visible THEN "clear" ELSE "failed"]

\* await locator.clear()
clear(t, k) == [t EXCEPT !.input = "", !.pc[k] = "fill"]

\* await locator.fill(text)
fill(t, k) == [t EXCEPT !.input = t.todos[k], !.pc[k] = "press"]

\* await this.newTodoInput.press('Enter'): the application adds the text of the
\* field, when there is one, to the end of its list and empties the field
press(t, k) ==
    [t EXCEPT !.list = IF t.input = "" THEN @ ELSE Append(@, t.input),
              !.completed = IF t.input = "" THEN @ ELSE Append(@, FALSE),
              !.input = "",
              !.pc[k] = "waitForTimeout"]

\* await this.page.waitForTimeout(100)
waitForTimeout(t, k) == [t EXCEPT !.pc[k] = "done"]

\* a call of op on the checkbox of item index (zero-based) that set it to
\* checked; with no such item the locator resolves to nothing and the call
\* throws when its timeout expires
CheckboxCall(t, op, index, checked) ==
    IF index < Len(t.list)
    THEN [t EXCEPT !.completed[index + 1] = checked,
                   !.call = [op |-> op, index |-> index, threw |-> FALSE,
                             was |-> t.completed]]
    ELSE [t EXCEPT !.call = [op |-> op, index |-> index, threw |-> TRUE,
                             was |-> t.completed]]

\* const checkbox = this.todoItems.nth(index).getByRole('checkbox');
\* await checkbox.check(): checks the box unless it is checked already
toggleTodo(t, index) == CheckboxCall(t, "toggleTodo", index, TRUE)

\* await checkbox.uncheck(): unchecks the box unless it is unchecked already
uncheckTodo(t, index) == CheckboxCall(t, "uncheckTodo", index, FALSE)

-----------------------------------------------------------------------------
(* Calls on the session handles *)

\* page.getBy*(...) and page.locator(...) compose a Locator: nothing is sent to
\* the browser before a method of the Locator is called
LocatorFactories == {"getByRole", "getByPlaceholder", "getByTestId", "getByLabel", "locator"}

\* the calls on its handle the constructor of a helper class makes
ConstructorCalls_navigates(class) ==
    CASE class = "PlaywrightHomePage" ->
            <<"goto", "getByRole", "getByRole", "locator", "getByRole", "locator">>
      [] class = "TodoPage" ->
            <<"getByPlaceholder", "getByTestId", "getByTestId", "getByTestId", "getByLabel",
              "getByRole", "getByRole", "getByRole", "getByRole">>
      [] OTHER -> <<>>

ConstructorCalls(class) ==
    CASE class = "PlaywrightHomePage" ->
            <<"getByRole", "getByRole", "locator", "getByRole", "locator">>
      [] class = "TodoPage" ->
            <<"getByPlaceholder", "getByTestId", "getByTestId", "getByTestId", "getByLabel",
              "getByRole", "getByRole", "getByRole", "getByRole">>
      [] class = "LocalStorageHelper" -> <<>>
      [] class = "ApiHelper" -> <<>>

\* the calls on its handle a method of a helper makes
MethodCalls(class, method) ==
    CASE class = "PlaywrightHomePage" /\ method = "goto" -> <<"goto">>
      [] class = "TodoPage" /\ method = "addTodo" ->
            <<"waitFor", "clear", "fill", "press", "waitForTimeout">>
      [] class = "LocalStorageHelper" /\ method = "getAllTodos" -> <<"evaluate">>
      [] class = "ApiHelper" /\ method = "get" -> <<"get">>

HelperMethods ==
    {<<"PlaywrightHomePage", "goto">>, <<"TodoPage", "addTodo">>,
     <<"LocalStorageHelper", "getAllTodos">>, <<"ApiHelper", "get">>}

NoIO ==
    [this |-> DependencyContainer(Undefined, Undefined, Undefined), heap |-> 1,
     op |-> "new", on |-> Null, made |-> <<>>, calls |-> <<>>]

-----------------------------------------------------------------------------
(* A container and the last call on it *)

NoBundle == [d \in Deps |-> Null]

\* value: the object an accessor or createX returned; bundle: the objects a
\* get*Dependencies call returned, per dependency
NoFrame ==
    [this |-> DependencyContainer(Undefined, Undefined, Undefined), heap |-> 1,
     op |-> "new", arg |-> Undefined, threw |-> FALSE, error |-> "", value |-> Null,
     bundle |-> NoBundle]

\* a validateArrayResponse call: data is an array of items or something else;
\* validator is absent or throws on the items it does not accept; minLength is
\* absent or a number
NoValidation == [pc |-> "idle", data |-> [isArray |-> FALSE, items |-> <<>>],
                 validator |-> [given |-> FALSE, accepts |-> {}],
                 minLength |-> [given |-> FALSE, n |-> 0],
                 threw |-> FALSE, message |-> ""]

\* a safeClick or safeFill call on a locator: issued is the sequence of calls
\* made on the locator, waited how its waitFor settled, field the text of the
\* element, timeout the timeout waitFor was given
NoAction == [pc |-> "idle", method |-> "none", text |-> "", force |-> Undefined,
             option |-> [given |-> FALSE, ms |-> 0], timeout |-> 0,
             field |-> "", issued |-> <<>>, waited |-> "no",
             threw |-> FALSE, error |-> ""]

\* no call was made yet
NoCallsYet ==
    /\ heap = 1
    /\ ret = [op |-> "new", arg |-> 0, threw |-> FALSE, error |-> "", value |-> Null]
    /\ called = {}
    /\ pending = [d \in Deps |-> "none"]
    /\ sinceReset = [d \in Deps |-> {}]
    /\ note = NoNote
    /\ scen = [n \in ScenarioNames |-> 0]
    /\ scenRes = [n \in ScenarioNames |-> <<>>]

Init ==
    /\ \E o \in OptionURLs, b \in EnvBaseURLs, a \in EnvApiURLs :
          container = createDependencyContainer(o, b, a)
    /\ NoCallsYet
    /\ fx = NoExecutions
    /\ api = NoApiCalls
    /\ todo = NoTodos
    /\ io = NoIO
    /\ dc = NoFrame
    /\ val = NoValidation
    /\ act = NoAction

Next ==
    \/ CallInitializePage
    \/ CallInitializeApi
    \/ GetPlaywrightHomePage
    \/ GetTodoPage
    \/ GetLocalStorageHelper
    \/ GetApiHelper
    \/ CallCreatePlaywrightHomePage
    \/ CallCreateTodoPage
    \/ CallCreateLocalStorageHelper
    \/ CallCreateApiHelper
    \/ CallClearCache
    \/ CallGetPageDependencies
    \/ CallGetApiDependencies
    \/ CallGetAllDependencies

Spec == Init /\ [][Next]_vars

TypeOK ==
    /\ container.page \in Pages \cup {NoHandle}
    /\ container.request \in Requests \cup {NoHandle}
    /\ heap \in 1..(MaxInst + 1)
    /\ called \subseteq InitOps
    /\ \A d \in Deps : pending[d] \in ResetOps \cup {"none"}
    /\ note.after \in ResetOps \cup {"none"}
    /\ \A n \in ScenarioNames : scen[n] \in -1..Len(Scenarios[n])

-----------------------------------------------------------------------------
(* One test execution, from the set-up of its fixtures to their teardown *)

containerVars == <<container, heap, ret, called, pending, sinceReset, note, scen, scenRes>>

SetupContainer(e) ==
    /\ fx.ex[e].pc = "start"
    /\ fx' = dependencyContainerSetup(fx, e)
    /\ UNCHANGED <<containerVars, api, todo, io, dc, val, act>>

\* every fixture the test asks for is set up: its body starts
StartBody(e) ==
    /\ fx.ex[e].pc = "fixtures"
    /\ fx' = [fx EXCEPT !.actor = e, !.ex[e].pc = "body"]
    /\ UNCHANGED <<containerVars, api, todo, io, dc, val, act>>

\* the body returns, or an assertion of it fails
BodyEnds(e, res) ==
    /\ fx.ex[e].pc = "body"
    /\ fx' = [fx EXCEPT !.actor = e, !.ex[e].pc = "teardown", !.ex[e].result = res]
    /\ UNCHANGED <<containerVars, api, todo, io, dc, val, act>>

\* the runner resumes the fixture after `use`, whatever the result of the test
Teardown(e) ==
    /\ fx.ex[e].pc = "teardown"
    /\ fx' = dependencyContainerTeardown(fx, e)
    /\ UNCHANGED <<containerVars, api, todo, io, dc, val, act>>

FxSetupContainer == SetupContainer(1)

FxSetupHelper == \E d \in Deps :
    /\ fx.ex[1].pc = "fixtures"
    /\ fx.ex[1].vals[d] = Null
    /\ fx' = directFixtureSetup(helperFixtureSetup(fx, 1, d), 1, d)
    /\ UNCHANGED <<containerVars, api, todo, io, dc, val, act>>

FxStartBody == StartBody(1)

FxBodyCall == \E op \in BodyOps :
    \E arg \in BodyArgs(op) :
        /\ fx.ex[1].pc = "body"
        /\ fx.ex[1].n < MaxBodyOps
        /\ fx' = [testBodyCall(fx, 1, op, arg) EXCEPT
                     !.ex[1].n = @ + 1,
                     !.ex[1].reset = @ \/ op \in {"initializePage", "initializeApi",
                                                  "clearCache"}]
        /\ UNCHANGED <<containerVars, api, todo, io, dc, val, act>>

FxBodyEnds == \E res \in {"passed", "failed"} : BodyEnds(1, res)

FxTeardown == Teardown(1)

InitFixture ==
    /\ container = createDependencyContainer(Undefined, Undefined, Undefined)
    /\ NoCallsYet
    /\ \E b \in EnvBaseURLs, a \in EnvApiURLs :
          fx = [NoExecutions EXCEPT !.env = [BASE_URL |-> b, API_BASE_URL |-> a]]
    /\ api = NoApiCalls
    /\ todo = NoTodos
    /\ io = NoIO
    /\ dc = NoFrame
    /\ val = NoValidation
    /\ act = NoAction

NextFixture ==
    \/ FxSetupContainer
    \/ FxSetupHelper
    \/ FxStartBody
    \/ FxBodyCall
    \/ FxBodyEnds
    \/ FxTeardown

SpecFixture == InitFixture /\ [][NextFixture]_vars

-----------------------------------------------------------------------------
(* Two test executions at the same time, their calls interleaved *)

\* the calls followed here: those of one page dependency and of the API dependency
ConcurrentOps ==
    {"initializePage", "initializeApi", "clearCache",
     "todoPage", "apiHelper", "createTodoPage", "createApiHelper"}

CoSetupContainer == \E e \in Execs : SetupContainer(e)

CoStartBody == \E e \in Execs : StartBody(e)

CoBodyCall == \E e \in Execs, op \in ConcurrentOps :
    /\ fx.ex[e].pc = "body"
    /\ LET f == testBodyCall(fx, e, op, Undefined)
       IN /\ f.store[f.ex[e].ref].heap <= MaxInst + 1
          \* of the call, only what it returned is kept
          /\ fx' = [f EXCEPT !.ex[e].last = [NoCall EXCEPT !.value = f.ex[e].last.value,
                                                           !.threw = f.ex[e].last.threw]]
    /\ UNCHANGED <<containerVars, api, todo, io, dc, val, act>>

CoBodyEnds == \E e \in Execs : BodyEnds(e, "passed")

CoTeardown == \E e \in Execs : Teardown(e)

InitConcurrent ==
    /\ container = createDependencyContainer(Undefined, Undefined, Undefined)
    /\ NoCallsYet
    /\ fx = NoExecutions
    /\ api = NoApiCalls
    /\ todo = NoTodos
    /\ io = NoIO
    /\ dc = NoFrame
    /\ val = NoValidation
    /\ act = NoAction

NextConcurrent ==
    \/ CoSetupContainer
    \/ CoStartBody
    \/ CoBodyCall
    \/ CoBodyEnds
    \/ CoTeardown

SpecConcurrent == InitConcurrent /\ [][NextConcurrent]_vars

-----------------------------------------------------------------------------
(* Calls through one ApiHelper *)

ApiStep(a) ==
    /\ api' = a
    /\ UNCHANGED <<containerVars, fx, todo, io, dc, val, act>>

ApiGet == \E c \in ApiCalls, e \in Endpoints, p \in ParamSets :
    /\ api.call[c].pc = "idle"
    /\ ApiStep(get(api, c, e, p))

ApiPost == \E c \in ApiCalls, e \in Endpoints :
    /\ api.call[c].pc = "idle"
    /\ ApiStep(post(api, c, e))

ApiPut == \E c \in ApiCalls, e \in Endpoints :
    /\ api.call[c].pc = "idle"
    /\ ApiStep(put(api, c, e))

ApiPatch == \E c \in ApiCalls, e \in Endpoints :
    /\ api.call[c].pc = "idle"
    /\ ApiStep(patch(api, c, e))

ApiDelete == \E c \in ApiCalls, e \in Endpoints :
    /\ api.call[c].pc = "idle"
    /\ ApiStep(delete(api, c, e))

ApiRequestSettles == \E c \in ApiCalls, outcome \in Outcomes :
    /\ api.call[c].pc = "requesting"
    /\ ApiStep(requestSettles(api, c, outcome))

ApiParseResponse == \E c \in ApiCalls, how \in {"json", "text", "failed"} :
    /\ api.call[c].pc = "parsing"
    /\ ApiStep(parseResponse(api, c, how))

InitApi ==
    /\ container = createDependencyContainer(Undefined, Undefined, Undefined)
    /\ NoCallsYet
    /\ fx = NoExecutions
    /\ \E r \in Requests, b \in ApiBaseURLs \cup {Undefined} :
          api = [NoApiCalls EXCEPT !.helper = ApiHelper(r, b), !.made = ApiHelper(r, b)]
    /\ todo = NoTodos
    /\ io = NoIO
    /\ dc = NoFrame
    /\ val = NoValidation
    /\ act = NoAction

NextApi ==
    \/ ApiGet
    \/ ApiPost
    \/ ApiPut
    \/ ApiPatch
    \/ ApiDelete
    \/ ApiRequestSettles
    \/ ApiParseResponse

SpecApi == InitApi /\ [][NextApi]_vars

-----------------------------------------------------------------------------
(* One call of addMultipleTodos *)

TodoStep(t) ==
    /\ todo' = t
    /\ UNCHANGED <<containerVars, fx, api, io, dc, val, act>>

Iterations == 1..Len(todo.todos)

TodoAddTodo == \E k \in Iterations :
    /\ addMultipleTodos(todo, k)
    /\ TodoStep(addTodo(todo, k))

TodoWaitForElement == \E k \in Iterations, visible \in BOOLEAN :
    /\ todo.pc[k] = "waitFor"
    /\ TodoStep(waitForElement(todo, k, visible))

TodoClear == \E k \in Iterations :
    /\ todo.pc[k] = "clear"
    /\ TodoStep(clear(todo, k))

TodoFill == \E k \in Iterations :
    /\ todo.pc[k] = "fill"
    /\ TodoStep(fill(todo, k))

TodoPress == \E k \in Iterations :
    /\ todo.pc[k] = "press"
    /\ TodoStep(press(todo, k))

TodoWaitForTimeout == \E k \in Iterations :
    /\ todo.pc[k] = "waitForTimeout"
    /\ TodoStep(waitForTimeout(todo, k))

InitTodo ==
    /\ container = createDependencyContainer(Undefined, Undefined, Undefined)
    /\ NoCallsYet
    /\ fx = NoExecutions
    /\ api = NoApiCalls
    /\ io = NoIO
    /\ dc = NoFrame
    /\ val = NoValidation
    /\ act = NoAction
    /\ \E ts \in SeqsUpTo(Titles, MaxTodos), l \in SeqsUpTo(Titles, 1),
          i \in Titles \cup {""} :
          \E c \in [1..Len(l) -> BOOLEAN] :
             todo = [todos |-> ts, before |-> l, list |-> l, input |-> i,
                     pc |-> [k \in 1..Len(ts) |-> "new"],
                     completed |-> c, call |-> NoTodoCall]

NextTodo ==
    \/ TodoAddTodo
    \/ TodoWaitForElement
    \/ TodoClear
    \/ TodoFill
    \/ TodoPress
    \/ TodoWaitForTimeout

SpecTodo == InitTodo /\ [][NextTodo]_vars

-----------------------------------------------------------------------------
(* ApiValidators.validateArrayResponse *)

Items == {"post", "not a post"}

defaultMinLength == 1

Passed == [threw |-> FALSE, message |-> ""]

Failed(message) == [threw |-> TRUE, message |-> message]

\* expect(Array.isArray(data)).toBe(true);
\* expect(data.length).toBeGreaterThanOrEqual(minLength);
\* if (data.length > 0 && validator) { validator(data[0]); }
validateArrayResponse(data, validator, minLength) ==
    IF ~data.isArray
    THEN Failed("Response should be an array")
    ELSE IF ~(Len(data.items) >= minLength)
    THEN Failed("Array should have at least minLength items")
    ELSE IF Len(data.items) > 0 /\ validator.given
                                /\ data.items[1] \notin validator.accepts
    THEN Failed("validator")
    ELSE Passed

VaValidateArrayResponse ==
    /\ val.pc = "called"
    /\ LET res == validateArrayResponse(val.data, val.validator,
                                         IF val.minLength.given THEN val.minLength.n
                                                                ELSE defaultMinLength)
       IN val' = [val EXCEPT !.pc = "returned", !.threw = res.threw,
                             !.message = res.message]
    /\ UNCHANGED <<containerVars, fx, api, todo, io, dc, act>>

InitValidate ==
    /\ container = createDependencyContainer(Undefined, Undefined, Undefined)
    /\ NoCallsYet
    /\ fx = NoExecutions
    /\ api = NoApiCalls
    /\ todo = NoTodos
    /\ io = NoIO
    /\ dc = NoFrame
    /\ act = NoAction
    /\ \E isArray \in BOOLEAN, items \in SeqsUpTo(Items, MaxItems),
          given \in BOOLEAN, accepts \in SUBSET Items,
          hasMin \in BOOLEAN, n \in 0..MaxItems :
          /\ ~isArray => items = <<>>
          /\ ~given => accepts = {}
          /\ ~hasMin => n = 0
          /\ val = [NoValidation EXCEPT
                       !.pc = "called",
                       !.data = [isArray |-> isArray, items |-> items],
                       !.validator = [given |-> given, accepts |-> accepts],
                       !.minLength = [given |-> hasMin, n |-> n]]

NextValidate == VaValidateArrayResponse

SpecValidate == InitValidate /\ [][NextValidate]_vars

-----------------------------------------------------------------------------
(* BasePage.safeClick and BasePage.safeFill *)

TIMEOUTS_DEFAULT == 5000
TIMEOUTS_SHORT == 2000

ForceOptions == {Undefined, "true", "false"}

TimeoutOptions == {[given |-> FALSE, ms |-> 0], [given |-> TRUE, ms |-> TIMEOUTS_SHORT]}

\* waitForElement(locator, timeout = this.defaultTimeout) calls
\* locator.waitFor({ state: 'visible', timeout })
callWaitForElement(a, option) ==
    [a EXCEPT !.timeout = IF option.given THEN option.ms ELSE TIMEOUTS_DEFAULT,
              !.issued = Append(@, "waitFor"),
              !.pc = "waitFor"]

\* safeClick(locator, options): await this.waitForElement(locator, options?.timeout)
safeClick(a) == callWaitForElement(a, a.option)

\* safeFill(locator, text): await this.waitForElement(locator)
safeFill(a) == callWaitForElement(a, [given |-> FALSE, ms |-> 0])

\* variant: an element that did not become visible is clicked or filled all
\* the same
locatorWaitFor_ignoresTimeout(a, visible) ==
    [a EXCEPT !.waited = IF visible THEN "visible" ELSE "timeout",
              !.pc = IF a.method = "safeClick" THEN "click" ELSE "clear"]

\* locator.waitFor returns when the element is visible; when the timeout
\* expires it throws, and the catch block of waitForElement throws
\* Error(`Element not visible within ${timeout}ms: ${error}`), which ends the
\* safeClick or safeFill call
locatorWaitFor(a, visible) ==
    IF visible
    THEN [a EXCEPT !.waited = "visible",
                   !.pc = IF a.method = "safeClick" THEN "click" ELSE "clear"]
    ELSE [a EXCEPT !.waited = "timeout", !.threw = TRUE,
                   !.error = "Element not visible within timeout",
                   !.pc = "failed"]

\* await locator.click({ force: options?.force })
locatorClick(a) == [a EXCEPT !.issued = Append(@, "click"), !.pc = "returned"]

\* await locator.clear()
locatorClear(a) == [a EXCEPT !.issued = Append(@, "clear"), !.field = "", !.pc = "fill"]

\* await locator.fill(text)
locatorFill(a) == [a EXCEPT !.issued = Append(@, "fill"), !.field = a.text,
                            !.pc = "returned"]

ActStep(a) ==
    /\ act' = a
    /\ UNCHANGED <<containerVars, fx, api, todo, io, dc, val>>

AcSafeClick ==
    /\ act.pc = "called"
    /\ act.method = "safeClick"
    /\ ActStep(safeClick(act))

AcSafeFill ==
    /\ act.pc = "called"
    /\ act.method = "safeFill"
    /\ ActStep(safeFill(act))

AcWaitFor == \E visible \in BOOLEAN :
    /\ act.pc = "waitFor"
    /\ ActStep(locatorWaitFor(act, visible))

AcClick ==
    /\ act.pc = "click"
    /\ ActStep(locatorClick(act))

AcClear ==
    /\ act.pc = "clear"
    /\ ActStep(locatorClear(act))

AcFill ==
    /\ act.pc = "fill"
    /\ ActStep(locatorFill(act))

InitAct ==
    /\ container = createDependencyContainer(Undefined, Undefined, Undefined)
    /\ NoCallsYet
    /\ fx = NoExecutions
    /\ api = NoApiCalls
    /\ todo = NoTodos
    /\ io = NoIO
    /\ dc = NoFrame
    /\ val = NoValidation
    /\ \E field \in Titles \cup {""} :
          \/ \E force \in ForceOptions, option \in TimeoutOptions :
                act = [NoAction EXCEPT !.pc = "called", !.method = "safeClick",
                                       !.force = force, !.option = option,
                                       !.field = field]
          \/ \E text \in Titles \cup {""} :
                act = [NoAction EXCEPT !.pc = "called", !.method = "safeFill",
                                       !.text = text, !.field = field]

NextAct ==
    \/ AcSafeClick
    \/ AcSafeFill
    \/ AcWaitFor
    \/ AcClick
    \/ AcClear
    \/ AcFill

SpecAct == InitAct /\ [][NextAct]_vars

-----------------------------------------------------------------------------
(* Checking and unchecking the items of a todo list *)

Indexes == 0..(MaxTodos - 1)

TgToggleTodo == \E index \in Indexes : TodoStep(toggleTodo(todo, index))

TgUncheckTodo == \E index \in Indexes : TodoStep(uncheckTodo(todo, index))

InitToggle ==
    /\ container = createDependencyContainer(Undefined, Undefined, Undefined)
    /\ NoCallsYet
    /\ fx = NoExecutions
    /\ api = NoApiCalls
    /\ io = NoIO
    /\ dc = NoFrame
    /\ val = NoValidation
    /\ act = NoAction
    /\ \E l \in SeqsUpTo(Titles, MaxTodos) :
          \E c \in [1..Len(l) -> BOOLEAN] :
             todo = [NoTodos EXCEPT !.before = l, !.list = l, !.completed = c]

NextToggle ==
    \/ TgToggleTodo
    \/ TgUncheckTodo

SpecToggle == InitToggle /\ [][NextToggle]_vars

-----------------------------------------------------------------------------
(* The calls of the container and of the helpers on the session handles *)

\* a method of the container ran with outcome res: the calls on the handles are
\* those of the constructor of the object it built, when it built one
IoCall(op, res) ==
    /\ res.heap <= MaxInst + 1
    /\ io' = [this |-> res.this, heap |-> res.heap, op |-> op, on |-> Null,
              made |-> IF res.heap > io.heap THEN <<res.value.class>> ELSE <<>>,
              calls |-> IF res.heap > io.heap THEN ConstructorCalls(res.value.class)
                        ELSE <<>>]
    /\ UNCHANGED <<containerVars, fx, api, todo, dc, val, act>>

IoInitializePage == \E p \in Pages :
    IoCall("initializePage", initializePage(io.this, io.heap, p))

IoInitializeApi == \E r \in Requests :
    IoCall("initializeApi", initializeApi(io.this, io.heap, r))

IoAccessor == \E d \in Deps :
    IoCall(d, Access(d, io.this, io.heap))

IoCreate == \E d \in Deps :
    \E u \in BodyArgs(Creator(d)) :
        IoCall(Creator(d), Invoke(Creator(d), u, 1, io.this, io.heap))

IoClearCache ==
    IoCall("clearCache", clearCache(io.this, io.heap))

\* a test calls a method of a helper it got from the container
IoHelperMethod == \E d \in Deps, m \in HelperMethods :
    /\ Slot(io.this, d) # Null
    /\ Slot(io.this, d).class = m[1]
    /\ io' = [io EXCEPT !.op = m[2], !.on = Slot(io.this, d), !.made = <<>>,
                         !.calls = MethodCalls(m[1], m[2])]
    /\ UNCHANGED <<containerVars, fx, api, todo, dc, val, act>>

InitIO ==
    /\ container = createDependencyContainer(Undefined, Undefined, Undefined)
    /\ NoCallsYet
    /\ fx = NoExecutions
    /\ api = NoApiCalls
    /\ todo = NoTodos
    /\ io = NoIO
    /\ dc = NoFrame
    /\ val = NoValidation
    /\ act = NoAction

NextIO ==
    \/ IoInitializePage
    \/ IoInitializeApi
    \/ IoAccessor
    \/ IoCreate
    \/ IoClearCache
    \/ IoHelperMethod

SpecIO == InitIO /\ [][NextIO]_vars

-----------------------------------------------------------------------------
(* Calls on a container, each seen with the state before and after it *)

BundleOps == {"getPageDependencies", "getApiDependencies", "getAllDependencies"}

\* op(arg) ran on the container with outcome res
FrameCall(op, arg, res) ==
    /\ dc.heap <= MaxInst + 1
    /\ dc' = [this |-> res.this, heap |-> res.heap, op |-> op, arg |-> arg,
              threw |-> res.threw, error |-> res.error,
              value |-> IF op \in BundleOps THEN Null ELSE res.value,
              bundle |-> IF op \in BundleOps /\ ~res.threw
                         THEN [d \in Deps |-> IF d \in DOMAIN res.value
                                              THEN res.value[d] ELSE Null]
                         ELSE NoBundle]
    /\ UNCHANGED <<containerVars, fx, api, todo, io, val, act>>

FrInitializePage == \E p \in Pages :
    FrameCall("initializePage", Undefined, initializePage(dc.this, dc.heap, p))

FrInitializeApi == \E r \in Requests :
    FrameCall("initializeApi", Undefined, initializeApi(dc.this, dc.heap, r))

FrClearCache ==
    FrameCall("clearCache", Undefined, clearCache(dc.this, dc.heap))

FrAccessor == \E d \in Deps :
    FrameCall(d, Undefined, Access(d, dc.this, dc.heap))

FrCreatePlaywrightHomePage ==
    FrameCall("createPlaywrightHomePage", Undefined,
              createPlaywrightHomePage(dc.this, dc.heap))

FrCreateTodoPage ==
    FrameCall("createTodoPage", Undefined, createTodoPage(dc.this, dc.heap))

FrCreateLocalStorageHelper ==
    FrameCall("createLocalStorageHelper", Undefined,
              createLocalStorageHelper(dc.this, dc.heap))

FrCreateApiHelper == \E u \in CustomURLs :
    FrameCall("createApiHelper", u, createApiHelper(dc.this, dc.heap, u))

FrGetPageDependencies ==
    FrameCall("getPageDependencies", Undefined, getPageDependencies(dc.this, dc.heap))

FrGetApiDependencies ==
    FrameCall("getApiDependencies", Undefined, getApiDependencies(dc.this, dc.heap))

FrGetAllDependencies ==
    FrameCall("getAllDependencies", Undefined, getAllDependencies(dc.this, dc.heap))

InitFrame ==
    /\ container = createDependencyContainer(Undefined, Undefined, Undefined)
    /\ NoCallsYet
    /\ fx = NoExecutions
    /\ api = NoApiCalls
    /\ todo = NoTodos
    /\ io = NoIO
    /\ val = NoValidation
    /\ act = NoAction
    /\ \E o \in OptionURLs :
          dc = [NoFrame EXCEPT !.this = createDependencyContainer(o, Undefined, Undefined)]

NextFrame ==
    \/ FrInitializePage
    \/ FrInitializeApi
    \/ FrClearCache
    \/ FrAccessor
    \/ FrCreatePlaywrightHomePage
    \/ FrCreateTodoPage
    \/ FrCreateLocalStorageHelper
    \/ FrCreateApiHelper
    \/ FrGetPageDependencies
    \/ FrGetApiDependencies
    \/ FrGetAllDependencies

SpecFrame == InitFrame /\ [][NextFrame]_vars

-----------------------------------------------------------------------------
(* Properties *)

Creators == {Creator(d) : d \in Deps}

\* the precondition error of dependency d
NotInitialized(d) == IF d \in PageDeps THEN PageNotInitialized ELSE ApiNotInitialized

\* the outcome of the k-th call of scenario n, once the calls have got that far
Reached(n, k) == scen[n] >= k
Outcome(n, k) == scenRes[n][k]

\* C1: while initializePage has never been called, a call of the
\* playwrightHomePage, todoPage or localStorageHelper accessor throws
\* 'Page not initialized...' and returns no instance, whatever else
\* (initializeApi, clearCache) was called before.
C1_PageAccessorBeforeInitializePageThrows ==
    \A d \in PageDeps :
        (ret.op = d /\ "initializePage" \notin called)
            => /\ ret.threw
               /\ ret.error = PageNotInitialized
               /\ ret.value = Null
               /\ Slot(container, d) = Null

\* a page accessor has just thrown although initializeApi and then clearCache
\* were called before it
C1_Witness ==
    /\ ret.op \in PageDeps
    /\ ret.threw
    /\ "initializePage" \notin called
    /\ "initializeApi" \in called
    /\ note.after = "clearCache"

\* C2: while initializeApi has never been called, a call of the apiHelper
\* accessor throws 'API request context not initialized...' and returns no
\* instance, whatever else (initializePage, clearCache) was called before.
C2_ApiAccessorBeforeInitializeApiThrows ==
    (ret.op = "apiHelper" /\ "initializeApi" \notin called)
        => /\ ret.threw
           /\ ret.error = ApiNotInitialized
           /\ ret.value = Null
           /\ container._apiHelper = Null

\* the apiHelper accessor has just thrown although initializePage and then
\* clearCache were called before it
C2_Witness ==
    /\ ret.op = "apiHelper"
    /\ ret.threw
    /\ "initializeApi" \notin called
    /\ "initializePage" \in called
    /\ note.after = "clearCache"

\* C3: for every dependency, all the calls of its accessor that return between
\* two consecutive initializePage/initializeApi/clearCache calls return one and
\* the same object, whatever accessor and createX calls happen in between: a
\* repeated call returns the object cached by the first and constructs nothing.
C3_SameInstanceBetweenResets ==
    /\ \A d \in Deps :
          /\ Cardinality(sinceReset[d]) <= 1
          /\ (ret.op = d /\ note.again)
                => /\ ~ret.threw
                   /\ ~note.fresh
                   /\ sinceReset[d] = {ret.value}
    /\ Reached("createTwice", 5)
          => Outcome("createTwice", 5).value = Outcome("createTwice", 2).value

\* todoPage, createTodoPage, createTodoPage, todoPage: the accessor has
\* returned a second time with two createX calls in between
C3_Witness ==
    /\ Reached("createTwice", 5)
    /\ ret.op = "todoPage"
    /\ note.again
    /\ ~ret.threw

\* C4: a call of initializePage on a container that already holds a page
\* handle, with another handle, empties the three page-dependent cache slots
\* and records the new handle, and leaves the cached apiHelper and the request
\* handle as they were; the next call of a page-dependent accessor then
\* succeeds and returns an object it has just constructed (so not the one
\* cached before), bound to the handle now recorded, and caches it.
C4_InitializePageInvalidatesPageDependencies ==
    [][ /\ (ret'.op = "initializePage" /\ container.page # NoHandle
                                       /\ ret'.arg # container.page)
              => /\ \A d \in PageDeps : Slot(container', d) = Null
                 /\ container'.page = ret'.arg
                 /\ container'._apiHelper = container._apiHelper
                 /\ container'.request = container.request
                 /\ ~ret'.threw
        /\ \A d \in PageDeps :
              (ret'.op = d /\ pending[d] = "initializePage")
                 => /\ ~ret'.threw
                    /\ ret'.value.id = heap
                    /\ ret'.value.handle = container.page
                    /\ Slot(container', d) = ret'.value
        /\ Reached("reinitPage", 7)'
              => /\ Outcome("reinitPage", 6)'.value # Outcome("reinitPage", 4)'.value
                 /\ Outcome("reinitPage", 7)'.value = Outcome("reinitPage", 2)'.value
      ]_vars

\* apiHelper A, todoPage T on the first page, initializePage with a second
\* page, todoPage T2 on the second page, apiHelper A again
C4_Witness ==
    /\ Reached("reinitPage", 7)
    /\ Outcome("reinitPage", 5).arg # Outcome("reinitPage", 3).arg
    /\ Outcome("reinitPage", 4).value.handle = Outcome("reinitPage", 3).arg
    /\ Outcome("reinitPage", 6).value.handle = Outcome("reinitPage", 5).arg
    /\ Outcome("reinitPage", 6).value.id # Outcome("reinitPage", 4).value.id
    /\ ~Outcome("reinitPage", 7).threw

\* C5: a call of initializeApi records the request handle it is given and
\* empties the apiHelper cache slot only: the three page-dependent slots and
\* the page handle are as they were; the next call of the apiHelper accessor
\* then succeeds and returns an object it has just constructed, bound to the
\* request handle now recorded, and caches it.
C5_InitializeApiInvalidatesApiHelperOnly ==
    [][ /\ ret'.op = "initializeApi"
              => /\ container'.request = ret'.arg
                 /\ container'._apiHelper = Null
                 /\ \A d \in PageDeps : Slot(container', d) = Slot(container, d)
                 /\ container'.page = container.page
                 /\ ~ret'.threw
        /\ (ret'.op = "apiHelper" /\ pending["apiHelper"] = "initializeApi")
              => /\ ~ret'.threw
                 /\ ret'.value.id = heap
                 /\ ret'.value.handle = container.request
                 /\ container'._apiHelper = ret'.value
        /\ Reached("reinitApi", 7)'
              => /\ Outcome("reinitApi", 6)'.value # Outcome("reinitApi", 4)'.value
                 /\ Outcome("reinitApi", 7)'.value = Outcome("reinitApi", 2)'.value
      ]_vars

\* localStorageHelper L, apiHelper A on the first request handle, initializeApi
\* with a second one, apiHelper A2 on the second, localStorageHelper L again
C5_Witness ==
    /\ Reached("reinitApi", 7)
    /\ Outcome("reinitApi", 5).arg # Outcome("reinitApi", 3).arg
    /\ Outcome("reinitApi", 4).value.handle = Outcome("reinitApi", 3).arg
    /\ Outcome("reinitApi", 6).value.handle = Outcome("reinitApi", 5).arg
    /\ Outcome("reinitApi", 6).value.id # Outcome("reinitApi", 4).value.id
    /\ ~Outcome("reinitApi", 7).threw

\* C6: for every dependency whose handle is recorded, the first call of its
\* accessor after a clearCache call succeeds and returns an object it has just
\* constructed, hence one different from every instance the accessor returned
\* before clearCache, although the handle is the same.
C6_AccessorAfterClearCacheReconstructs ==
    /\ \A d \in Deps :
          (ret.op = d /\ note.after = "clearCache" /\ HandleOf(container, d) # NoHandle)
             => /\ ~ret.threw
                /\ note.fresh
                /\ ret.value.handle = HandleOf(container, d)
                /\ Slot(container, d) = ret.value
    /\ Reached("clear", 4)
          => /\ ~Outcome("clear", 4).threw
             /\ Outcome("clear", 4).value # Outcome("clear", 2).value

\* playwrightHomePage A, clearCache, playwrightHomePage B on the same page
C6_Witness ==
    /\ Reached("clear", 4)
    /\ ret.op = "playwrightHomePage"
    /\ note.after = "clearCache"
    /\ ~Outcome("clear", 2).threw
    /\ Outcome("clear", 4).value.handle = Outcome("clear", 2).value.handle
    /\ Outcome("clear", 4).value.id # Outcome("clear", 2).value.id

\* C7: clearCache empties the four cache slots and leaves the page handle,
\* the request handle and baseURL as they were; it is idempotent: clearCache
\* applied to the state it has produced yields that same state.
C7_ClearCacheEmptiesSlotsKeepsHandles ==
    [][ ret'.op = "clearCache"
           => /\ \A d \in Deps : Slot(container', d) = Null
              /\ container'.page = container.page
              /\ container'.request = container.request
              /\ container'.baseURL = container.baseURL
              /\ ~ret'.threw
              /\ heap' = heap
              /\ clearCache(container', heap').this = container'
              /\ clearCache(container', heap').heap = heap'
      ]_vars

\* clearCache has just run on a container whose apiHelper slot was filled
C7_Witness ==
    /\ scen["section8"] = 5
    /\ ret.op = "clearCache"
    /\ ~Outcome("section8", 4).threw
    /\ container._apiHelper = Null
    /\ container.request # NoHandle

\* C8: for every dependency, each successful createX call returns an object it
\* has just constructed (so two createX calls return two distinct objects, both
\* different from every object the accessor returned before), and the accessor
\* never returns, and the cache slot never holds, an object made by createX.
C8_CreateReturnsDistinctUncachedInstances ==
    /\ \A d \in Deps :
          /\ (ret.op = Creator(d) /\ ~ret.threw)
                => /\ note.fresh
                   /\ ret.value.by = "create"
                   /\ ret.value # Slot(container, d)
          /\ (ret.op = d /\ ~ret.threw) => ret.value.by = "accessor"
          /\ Slot(container, d).by # "create"
          /\ \A o \in sinceReset[d] : o.by = "accessor"
    /\ Reached("createTwice", 5)
          => LET A == Outcome("createTwice", 2).value
                 X == Outcome("createTwice", 3).value
                 Y == Outcome("createTwice", 4).value
                 B == Outcome("createTwice", 5).value
             IN X # Y /\ X # A /\ Y # A /\ X # B /\ Y # B

\* todoPage A, createTodoPage X, createTodoPage Y, todoPage B
C8_Witness ==
    /\ Reached("createTwice", 5)
    /\ ~Outcome("createTwice", 3).threw
    /\ ~Outcome("createTwice", 4).threw
    /\ Outcome("createTwice", 3).value.class = "TodoPage"
    /\ Outcome("createTwice", 4).value.class = "TodoPage"
    /\ Outcome("createTwice", 5).value.class = "TodoPage"

\* C9: a createX call throws the precondition error of its dependency exactly
\* when the handle the dependency needs is not recorded (the page handle for
\* createPlaywrightHomePage, createTodoPage, createLocalStorageHelper, the
\* request handle for createApiHelper), as the matching accessor does; in
\* every other state it returns an instance bound to that handle.
C9_CreatePrecondition ==
    [][ \A d \in Deps :
           /\ ret'.op = Creator(d)
                 => /\ ret'.threw <=> (HandleOf(container, d) = NoHandle)
                    /\ ret'.threw => (ret'.error = NotInitialized(d) /\ ret'.value = Null)
                    /\ ~ret'.threw => (/\ ret'.value # Null
                                       /\ ret'.value.handle = HandleOf(container, d))
           /\ ret'.op = d
                 => /\ ret'.threw <=> (HandleOf(container, d) = NoHandle)
                    /\ ret'.threw => ret'.error = NotInitialized(d)
      ]_vars

\* createApiHelper has just thrown on a container that holds a page handle and
\* on which a page-dependent helper had been constructed before
C9_Witness ==
    /\ ret.op = "createApiHelper"
    /\ ret.threw
    /\ ret.error = ApiNotInitialized
    /\ container.page # NoHandle
    /\ container.request = NoHandle
    /\ heap > 1

\* C10: on a new container, the calls apiHelper; initializeApi(h); apiHelper;
\* apiHelper; clearCache; apiHelper have these outcomes: the first throws the
\* precondition error, the second access returns an instance A, the third
\* returns the same A, and the access after clearCache returns an instance B
\* different from A.
C10_Section8Scenario ==
    /\ Reached("section8", 1)
          => /\ Outcome("section8", 1).threw
             /\ Outcome("section8", 1).error = ApiNotInitialized
    /\ Reached("section8", 2) => ~Outcome("section8", 2).threw
    /\ Reached("section8", 3)
          => /\ ~Outcome("section8", 3).threw
             /\ Outcome("section8", 3).value # Null
             /\ Outcome("section8", 3).value.class = "ApiHelper"
    /\ Reached("section8", 4)
          => /\ ~Outcome("section8", 4).threw
             /\ Outcome("section8", 4).value = Outcome("section8", 3).value
    /\ Reached("section8", 5) => ~Outcome("section8", 5).threw
    /\ Reached("section8", 6)
          => /\ ~Outcome("section8", 6).threw
             /\ Outcome("section8", 6).value # Null
             /\ Outcome("section8", 6).value # Outcome("section8", 3).value

\* the six calls of the scenario have been made
C10_Witness ==
    /\ scen["section8"] = 6
    /\ Len(scenRes["section8"]) = 6
    /\ ret.op = "apiHelper"

\* the call that records the handle dependency d depends on, and the calls
\* that invoke the accessor of d
InitOpOf(d) == IF d \in PageDeps THEN "initializePage" ELSE "initializeApi"
AccessOps(d) ==
    {d, "getAllDependencies"}
        \cup (IF d \in PageDeps THEN {"getPageDependencies"} ELSE {"getApiDependencies"})

\* C11: in every reachable state a page-dependent cache slot is filled only
\* if a page handle is recorded, and the apiHelper slot only if a request
\* handle is recorded; every helper an accessor or createX returns was
\* constructed over a handle that had been supplied.
C11_NoHelperWithoutHandle ==
    \A d \in Deps :
        /\ Slot(container, d) # Null
              => /\ HandleOf(container, d) # NoHandle
                 /\ InitOpOf(d) \in called
                 /\ Slot(container, d).handle # NoHandle
        /\ (ret.op \in {d, Creator(d)} /\ ~ret.threw)
              => /\ ret.value.handle # NoHandle
                 /\ InitOpOf(d) \in called

\* the page-dependent slots are filled while no request handle was ever
\* supplied and the apiHelper slot is empty
C11_Witness ==
    /\ \A d \in PageDeps : Slot(container, d) # Null
    /\ container.page # NoHandle
    /\ container.request = NoHandle
    /\ container._apiHelper = Null
    /\ "initializeApi" \notin called

\* C12: initializePage, initializeApi and clearCache never throw; a call
\* throws only the precondition error of a dependency whose handle is not
\* recorded; and once initializePage and initializeApi have both been called,
\* both handles stay recorded and no later call throws.
C12_OnlyPreconditionFailure ==
    /\ ret.op \in ResetOps => ~ret.threw
    /\ ret.threw
          => /\ ret.error \in {PageNotInitialized, ApiNotInitialized}
             /\ ret.error = PageNotInitialized => container.page = NoHandle
             /\ ret.error = ApiNotInitialized => container.request = NoHandle
    /\ called = InitOps
          => /\ ~ret.threw
             /\ container.page # NoHandle
             /\ container.request # NoHandle

\* initializePage, initializeApi, apiHelper, clearCache, initializePage,
\* todoPage, createApiHelper: every call has succeeded
C12_Witness ==
    /\ Reached("ready", 7)
    /\ \A k \in 1..7 : ~Outcome("ready", k).threw
    /\ ret.op = "createApiHelper"
    /\ called = InitOps

\* C13: the cache slot of a dependency goes from empty to filled only in a
\* call that invokes the dependency's accessor (the accessor itself,
\* getPageDependencies/getApiDependencies or getAllDependencies), with the
\* object that accessor invocation returned; it goes from filled to empty only
\* in clearCache or in the initialize call of the handle the dependency
\* depends on; no call replaces a filled slot's object by another.
C13_SlotTransitions ==
    [][ \A d \in Deps :
           /\ (Slot(container, d) = Null /\ Slot(container', d) # Null)
                 => /\ ret'.op \in AccessOps(d)
                    /\ Slot(container', d) \in sinceReset'[d]
                    /\ Slot(container', d) \notin sinceReset[d]
                    /\ Slot(container', d).id >= heap
           /\ (Slot(container, d) # Null /\ Slot(container', d) = Null)
                 => ret'.op \in {"clearCache", InitOpOf(d)}
           /\ (Slot(container, d) # Null /\ Slot(container', d) # Null)
                 => Slot(container', d) = Slot(container, d)
      ]_vars

\* initializePage, getAllDependencies (fills the page slots, then throws for
\* want of a request handle), initializeApi (leaves them filled),
\* initializePage (empties them)
C13_Witness ==
    /\ Reached("viaAll", 4)
    /\ Outcome("viaAll", 2).threw
    /\ Outcome("viaAll", 2).error = ApiNotInitialized
    /\ ret.op = "initializePage"
    /\ \A d \in PageDeps : Slot(container, d) = Null
    /\ heap = MaxInst + 1

-----------------------------------------------------------------------------
(* The fixtures *)

\* the container object of execution e
ContainerOf(e) == fx.store[fx.ex[e].ref].this

\* C14: under the dependencyContainer fixture an execution has no container
\* before the fixture ran and, from then on, a container holding the page and
\* the request of the execution; so no helper fixture (and no accessor called by
\* the test body) raises the precondition error, every value a helper fixture
\* hands out is built on the execution's handle, and once the execution has
\* ended, its test passed or failed, every cache slot of its container is empty.
C14_FixtureLifecycle ==
    LET x == fx.ex[1]
    IN /\ x.pc = "start" <=> x.ref = 0
       /\ x.ref # 0
             => /\ ContainerOf(1).page = PageOf(1)
                /\ ContainerOf(1).request = RequestOf(1)
       /\ x.result # "fixtureError"
       /\ ~x.last.threw
       /\ \A d \in Deps :
             x.vals[d] # Null
                => /\ x.vals[d].by = "accessor"
                   /\ x.vals[d].handle = (IF d \in PageDeps THEN PageOf(1) ELSE RequestOf(1))
       /\ (x.pc = "fixtures" \/ (x.pc = "body" /\ x.n = 0))
             => \A d \in Deps : Slot(ContainerOf(1), d) = x.vals[d]
       /\ x.pc = "done"
             => /\ x.result \in {"passed", "failed"}
                /\ \A d \in Deps : Slot(ContainerOf(1), d) = Null

\* the four helper fixtures were set up, the body made a call and failed, and the
\* fixture was torn down
C14_Witness ==
    /\ fx.ex[1].pc = "done"
    /\ fx.ex[1].result = "failed"
    /\ fx.ex[1].n >= 1
    /\ \A d \in Deps : fx.ex[1].vals[d] # Null

\* the objects execution e holds or can reach through its container
HeldBy(f, e) ==
    ({f.ex[e].last.value} \cup {f.ex[e].vals[d] : d \in Deps}
        \cup (IF f.ex[e].ref = 0 THEN {}
              ELSE {Slot(f.store[f.ex[e].ref].this, d) : d \in Deps}))
      \ {Null}

\* C15: of two executions running at the same time each has a container of its
\* own: a step of one execution (fixture set-up, initialize, accessor, createX,
\* clearCache, teardown) leaves the container of the other, handles and slots,
\* and all the other holds as they were, every object an execution holds is
\* built on a handle of that execution, and no object is held by both.
C15_ExecutionsDoNotInterfere ==
    [][ /\ \A e \in Execs :
              (fx'.actor # e /\ fx.ex[e].ref # 0)
                 => /\ fx'.ex[e] = fx.ex[e]
                    /\ fx'.store[fx.ex[e].ref] = fx.store[fx.ex[e].ref]
        /\ \A e \in Execs :
              /\ \A o \in HeldBy(fx', e) : o.handle \in {PageOf(e), RequestOf(e)}
              /\ fx'.ex[e].ref # 0
                    => /\ fx'.store[fx'.ex[e].ref].this.page \in {NoHandle, PageOf(e)}
                       /\ fx'.store[fx'.ex[e].ref].this.request \in {NoHandle, RequestOf(e)}
        /\ \A e1, e2 \in Execs :
              e1 # e2
                 => /\ HeldBy(fx', e1) \cap HeldBy(fx', e2) = {}
                    /\ fx'.ex[e1].ref # 0 => fx'.ex[e1].ref # fx'.ex[e2].ref
      ]_vars

\* both executions are in their test body, each with both slots filled, and
\* execution 2 has just received its cached ApiHelper
C15_Witness ==
    /\ \A e \in Execs :
          /\ fx.ex[e].pc = "body"
          /\ Slot(ContainerOf(e), "todoPage") # Null
          /\ Slot(ContainerOf(e), "apiHelper") # Null
    /\ fx.actor = 2
    /\ fx.ex[2].last.value = Slot(ContainerOf(2), "apiHelper")
    /\ fx.ex[1].last.value = Slot(ContainerOf(1), "todoPage")

\* C19: a container made without a baseURL option gives every ApiHelper it
\* produces (the cached one, and createApiHelper without argument) the configured
\* API base URL: API_BASE_URL of the environment when set, the default API URL
\* otherwise, whether BASE_URL is set or not.
C19_ApiHelperHasConfiguredApiURL ==
    LET x == fx.ex[1]
    IN /\ x.vals["apiHelper"] # Null
             => x.vals["apiHelper"].baseURL = ConfiguredApiURL(fx.env)
       /\ (/\ ~x.last.threw
           /\ \/ x.last.op = "apiHelper"
              \/ x.last.op = "createApiHelper" /\ x.last.arg = Undefined)
             => x.last.value.baseURL = ConfiguredApiURL(fx.env)

-----------------------------------------------------------------------------
(* The ApiHelper *)

\* C16: of the calls in flight through one ApiHelper, each that returns returns
\* the response to its own request (its method and URL), the status of that
\* response and the data read from its body, however the steps of the calls
\* interleave; and the helper's request handle, baseURL and default timeout
\* stay as they were constructed.
C16_ConcurrentCallsDoNotInterfere ==
    /\ api.helper = api.made
    /\ api.helper.defaultTimeout = defaultTimeout
    /\ \A c \in ApiCalls :
          LET x == api.call[c]
          IN /\ x.pc \in {"requesting", "parsing"} => x.timeout = defaultTimeout
             /\ (x.pc = "done" /\ ~x.threw)
                   => /\ x.result.response = x.response
                      /\ x.result.response.url = x.url
                      /\ x.result.response.method = x.method
                      /\ x.result.status = x.response.status
                      /\ x.result.data.body = BodyOf(x.method, x.url)

\* call 2 returned while call 1, to another URL and answered with another
\* status, was in flight and answered after call 2
C16_Witness ==
    /\ api.call[1].pc = "parsing"
    /\ api.call[2].pc = "done"
    /\ ~api.call[2].threw
    /\ api.call[1].url # api.call[2].url
    /\ api.call[1].response.status # api.call[2].response.status
    /\ api.latest = api.call[1].response

\* C18: a call of get/post/put/patch/delete answered with a status of 400 or
\* more returns normally, with that status in the status field; a call throws
\* only when its request failed (or the body of the response could not be
\* read), and the error it throws names the HTTP method and the URL.
C18_ThrowsOnlyOnRequestFailure ==
    \A c \in ApiCalls :
        LET x == api.call[c]
        IN x.pc = "done"
              => /\ x.threw
                       => /\ x.cause \in {"request", "body"}
                          /\ \E e \in {"Error: request failed", "Error: body not read"} :
                                x.error = RequestFailed(x.method, x.url, e)
                 /\ (x.response.status >= 400 /\ x.cause # "body")
                       => /\ ~x.threw
                          /\ x.result.status = x.response.status

-----------------------------------------------------------------------------
(* The TodoPage *)

\* the number of iterations whose Enter was pressed
Entered(t) == Cardinality({k \in 1..Len(t.todos) : t.pc[k] \in {"waitForTimeout", "done"}})

\* C20: addMultipleTodos calls addTodo for the elements of its array in their
\* order, the addTodo of an element only once the addTodo of the element before
\* it has returned (its fill, its Enter and its wait done); so the list holds, at
\* any time, the items it had followed by the titles entered so far in the
\* order of the array, and when addMultipleTodos returns, the items it had
\* followed by the whole array: as many more as the array has elements.
C20_TodosAddedInInputOrder ==
    /\ \A k \in 1..Len(todo.todos) :
          todo.pc[k] # "new" => \A j \in 1..(k - 1) : todo.pc[j] = "done"
    /\ todo.list = todo.before \o SubSeq(todo.todos, 1, Entered(todo))
    /\ (\A k \in 1..Len(todo.todos) : todo.pc[k] = "done")
          => /\ todo.list = todo.before \o todo.todos
             /\ Len(todo.list) = Len(todo.before) + Len(todo.todos)

\* addMultipleTodos has returned from an array of two different titles or more,
\* called on a list that had an item and a field that had text
C20_Witness ==
    /\ Len(todo.todos) >= 2
    /\ todo.todos[1] # todo.todos[2]
    /\ \A k \in 1..Len(todo.todos) : todo.pc[k] = "done"
    /\ todo.before # <<>>
    /\ Len(todo.list) = Len(todo.before) + Len(todo.todos)

-----------------------------------------------------------------------------
(* Construction and I/O *)

ContainerOps == {"initializePage", "initializeApi", "clearCache"} \cup Deps \cup Creators

\* C17: initializePage, initializeApi, clearCache, the accessors and the createX
\* methods issue no I/O on the page and request handles: the only calls they make
\* on a handle are those of the constructor of the helper they build, and these
\* only compose locators; it takes a method of a helper to navigate, evaluate in
\* the page, act on an element or send an HTTP request.
C17_ConstructionPerformsNoIO ==
    /\ io.op \in ContainerOps
          => \A i \in 1..Len(io.calls) : io.calls[i] \in LocatorFactories
    /\ (\E i \in 1..Len(io.calls) : io.calls[i] \notin LocatorFactories)
          => /\ io.on # Null
             /\ <<io.on.class, io.op>> \in HelperMethods

\* the todoPage accessor has just constructed a TodoPage, composing its locators
C17_Witness ==
    /\ io.op = "todoPage"
    /\ io.made = <<"TodoPage">>
    /\ Len(io.calls) = 9
    /\ io.this._todoPage # Null
    /\ io.this._playwrightHomePage # Null

-----------------------------------------------------------------------------
(* Bundles, failed calls and what a call leaves alone *)

\* the precondition error a call raises on container this: the page is looked
\* at before the request
ErrorOn(this) == IF this.page = NoHandle THEN PageNotInitialized ELSE ApiNotInitialized

\* C21: getPageDependencies returns the three page helpers exactly when the page
\* handle is recorded, getApiDependencies the apiHelper exactly when the request
\* handle is recorded, getAllDependencies all four exactly when both are; they
\* raise the precondition error of the missing handle otherwise; and every
\* helper in a bundle is the instance the accessor of its dependency returns.
C21_BundlesRequireHandles ==
    /\ dc.op = "getPageDependencies"
          => /\ ~dc.threw <=> dc.this.page # NoHandle
             /\ dc.threw => dc.error = PageNotInitialized
             /\ ~dc.threw => \A d \in ApiDeps : dc.bundle[d] = Null
    /\ dc.op = "getApiDependencies"
          => /\ ~dc.threw <=> dc.this.request # NoHandle
             /\ dc.threw => dc.error = ApiNotInitialized
             /\ ~dc.threw => \A d \in PageDeps : dc.bundle[d] = Null
    /\ dc.op = "getAllDependencies"
          => /\ ~dc.threw <=> (dc.this.page # NoHandle /\ dc.this.request # NoHandle)
             /\ dc.threw => dc.error = ErrorOn(dc.this)
             /\ ~dc.threw => \A d \in Deps : dc.bundle[d] # Null
    /\ (dc.op \in BundleOps /\ ~dc.threw)
          => \A d \in Deps :
                dc.bundle[d] # Null
                   => /\ dc.bundle[d] = Access(d, dc.this, dc.heap).value
                      /\ dc.bundle[d].handle = HandleOf(dc.this, d)

\* getAllDependencies returned four helpers, of which it constructed some and
\* found the others cached
C21_Witness ==
    /\ dc.op = "getAllDependencies"
    /\ ~dc.threw
    /\ \A d \in Deps : dc.bundle[d] # Null
    /\ dc.bundle["todoPage"].id = 1
    /\ dc.bundle["apiHelper"].id = dc.heap - 1

\* C24: every filled cache slot holds an instance bound to the handle now
\* recorded for its dependency, and so is every instance an accessor returns:
\* never one bound to a handle that was replaced.
C24_SlotsBoundToCurrentHandle ==
    /\ \A d \in Deps :
          Slot(container, d) # Null
             => /\ Slot(container, d).handle = HandleOf(container, d)
                /\ Slot(container, d).by = "accessor"
    /\ (ret.op \in Deps /\ ~ret.threw)
          => /\ ret.value.handle = HandleOf(container, ret.op)
             /\ ret.value = Slot(container, ret.op)

\* after the request handle was replaced the apiHelper accessor returned a
\* helper on the second handle, and the page helper cached before is returned
C24_Witness ==
    /\ Reached("reinitApi", 7)
    /\ container.request = Outcome("reinitApi", 5).arg
    /\ container.request # Outcome("reinitApi", 3).arg
    /\ container._apiHelper.handle = container.request
    /\ ret.value.handle = container.page

\* C25: an accessor or createX call that raises the precondition error leaves
\* the container as it was: handles, baseURL and the four cache slots; and it
\* constructs nothing.
C25_FailedCallLeavesContainerUnchanged ==
    [][ (dc'.threw /\ dc'.op \in Deps \cup Creators)
           => /\ dc'.this = dc.this
              /\ dc'.heap = dc.heap
              /\ dc'.error = NotInitialized(DepOf(dc'.op))
              /\ HandleOf(dc.this, DepOf(dc'.op)) = NoHandle
      ]_vars

\* createTodoPage failed on a container that has a request handle and a cached
\* apiHelper
C25_Witness ==
    /\ dc.op = "createTodoPage"
    /\ dc.threw
    /\ dc.this.request # NoHandle
    /\ dc.this._apiHelper # Null

\* C26: a getAllDependencies call that raises the precondition error leaves the
\* container as it was; with a page handle and no request handle it constructs
\* and caches no page helper.
C26_FailedGetAllLeavesContainerUnchanged ==
    [][ (dc'.op = "getAllDependencies" /\ dc'.threw)
           => /\ dc'.this = dc.this
              /\ dc'.heap = dc.heap
      ]_vars

\* C27: an accessor call that succeeds changes at most the cache slot of its
\* own dependency, and that only from empty to the instance it returns; the
\* other slots, both handles and the baseURL are as they were.
C27_AccessorChangesOwnSlotOnly ==
    [][ (dc'.op \in Deps /\ ~dc'.threw)
           => /\ \A d \in Deps \ {dc'.op} : Slot(dc'.this, d) = Slot(dc.this, d)
              /\ dc'.this.page = dc.this.page
              /\ dc'.this.request = dc.this.request
              /\ dc'.this.baseURL = dc.this.baseURL
              /\ Slot(dc'.this, dc'.op) = dc'.value
              /\ Slot(dc.this, dc'.op) # Null => dc'.this = dc.this
      ]_vars

\* the playwrightHomePage accessor has just constructed its instance on a
\* container whose other three slots are filled
C27_Witness ==
    /\ dc.op = "playwrightHomePage"
    /\ ~dc.threw
    /\ dc.value.id = dc.heap - 1
    /\ dc.value.id > 1
    /\ \A d \in Deps : Slot(dc.this, d) # Null

\* C28: a createX call leaves the container as it was, every cache slot and
\* both handles, so each accessor returns afterwards what it would have
\* returned before unless it had to construct; createApiHelper with a custom
\* base URL returns a helper on that URL (on the container's baseURL without
\* one), and the cached apiHelper is on the container's baseURL.
C28_CreateLeavesCacheUntouched ==
    [][ /\ dc'.op \in Creators
              => /\ dc'.this = dc.this
                 /\ \A d \in Deps :
                       Slot(dc.this, d) # Null
                          => Access(d, dc'.this, dc'.heap).value = Slot(dc.this, d)
                 /\ (dc'.op = "createApiHelper" /\ ~dc'.threw)
                       => /\ Truthy(dc'.arg) => dc'.value.baseURL = dc'.arg
                          /\ ~Truthy(dc'.arg) => dc'.value.baseURL = dc.this.baseURL
                          /\ dc'.value # dc'.this._apiHelper
        /\ dc'.this._apiHelper # Null => dc'.this._apiHelper.baseURL = dc'.this.baseURL
      ]_vars

\* createApiHelper returned a helper on a custom base URL while the cached
\* apiHelper is on the container's, and the todoPage slot is empty
C28_Witness ==
    /\ dc.op = "createApiHelper"
    /\ Truthy(dc.arg)
    /\ dc.value.baseURL = dc.arg
    /\ dc.this._apiHelper # Null
    /\ dc.this._apiHelper.baseURL # dc.arg
    /\ dc.this._todoPage = Null
    /\ dc.this.page # NoHandle

-----------------------------------------------------------------------------
(* toggleTodo *)

\* C22: toggleTodo(index) flips the completion state of the item: an active
\* item becomes completed and a completed one active (so that two calls
\* restore the state), and no other item changes.
C22_ToggleTodoFlipsCompletion ==
    (todo.call.op = "toggleTodo" /\ ~todo.call.threw)
       => \A k \in 1..Len(todo.list) :
             todo.completed[k] = IF k = todo.call.index + 1
                                 THEN ~todo.call.was[k]
                                 ELSE todo.call.was[k]

-----------------------------------------------------------------------------
(* validateArrayResponse *)

\* the minLength a call is made with
MinLengthOf(v) == IF v.minLength.given THEN v.minLength.n ELSE defaultMinLength

\* C23: validateArrayResponse(data, validator, minLength) passes exactly when
\* data is an array of at least minLength items and the validator accepts
\* every one of them; it fails as soon as one item is rejected.
C23_ValidatesEveryItem ==
    val.pc = "returned"
       => (~val.threw
             <=> /\ val.data.isArray
                 /\ Len(val.data.items) >= MinLengthOf(val)
                 /\ val.validator.given
                       => \A k \in 1..Len(val.data.items) :
                             val.data.items[k] \in val.validator.accepts)

-----------------------------------------------------------------------------
(* safeClick and safeFill *)

IsPrefix(p, q) == Len(p) <= Len(q) /\ p = SubSeq(q, 1, Len(p))

\* C29: safeClick issues its click only after the wait for visibility has
\* succeeded, and safeFill issues wait, clear and fill in this order; when the
\* element does not become visible within the timeout the call throws an
\* error and issues no click, clear or fill. Nothing else makes the call
\* throw, and a safeFill that returns leaves the text in the element.
C29_ActsOnlyOnVisibleElement ==
    /\ act.method = "safeClick" => IsPrefix(act.issued, <<"waitFor", "click">>)
    /\ act.method = "safeFill" => IsPrefix(act.issued, <<"waitFor", "clear", "fill">>)
    /\ Len(act.issued) > 1 => act.waited = "visible"
    /\ act.waited = "timeout"
          => /\ act.threw
             /\ act.error = "Element not visible within timeout"
             /\ act.issued = <<"waitFor">>
    /\ act.threw => act.waited = "timeout"
    /\ act.pc = "waitFor"
          => act.timeout = IF act.method = "safeClick" /\ act.option.given
                           THEN act.option.ms ELSE TIMEOUTS_DEFAULT
    /\ act.pc = "returned"
          => /\ act.method = "safeClick" => act.issued = <<"waitFor", "click">>
             /\ act.method = "safeFill"
                   => act.issued = <<"waitFor", "clear", "fill">> /\ act.field = act.text

\* a safeFill call has replaced the text of a visible element
C29_Witness ==
    /\ act.method = "safeFill"
    /\ act.pc = "returned"
    /\ act.issued = <<"waitFor", "clear", "fill">>
    /\ act.field = "feed the cat"

-----------------------------------------------------------------------------
(* The fixtures on the container and the fixtures that construct *)

====
